---- MODULE Spec2Model ----
(***************************************************************************)
(* Change Intelligence Service: the event store with its ingest routes,    *)
(* the in-memory service dependency graph, the blast-radius analyzer and   *)
(* the service expansion of the correlator.                                *)
(*                                                                         *)
(* Conventions.  A JavaScript Map or Set is a sequence in insertion order  *)
(* (re-setting a key keeps its position).  An optional value is <<>> when  *)
(* undefined/null and <<v>> when present; an optional string is kept as a  *)
(* string with Undefined for the absent case.  A confidence in [0,1] is an *)
(* integer number of hundredths.                                           *)
(***************************************************************************)
EXTENDS Integers, Sequences, FiniteSets, TLC

VARIABLES
    nodes,       \* ServiceGraph.nodes    : sequence of node records (Map order)
    edges,       \* ServiceGraph.edges    : sequence of edge records (Map order)
    outgoing,    \* ServiceGraph.outgoing : node id -> sequence of edge ids
    incoming,    \* ServiceGraph.incoming : node id -> sequence of edge ids
    call,        \* the last analytical call on the graph and its result
    rows,        \* change_events : sequence of rows in rowid order
    fts,         \* change_events_fts : the indexed text of each rowid
    nextId,      \* the id the next randomUUID() yields
    now,         \* the clock
    immediates,  \* the setImmediate queue of the event loop
    delivery,    \* the last notification delivered to a subscriber
    response     \* the reply to the last request on the store

graphVars == <<nodes, edges, outgoing, incoming>>
storeVars == <<rows, fts, nextId, now, immediates, delivery, response>>
vars == <<nodes, edges, outgoing, incoming, call,
          rows, fts, nextId, now, immediates, delivery, response>>

(***************************************************************************)
(* Bounds of the model.                                                    *)
(***************************************************************************)
MaxEdges == 2
MaxIds == 2
MaxBatch == 2
MaxClock == 1

Undefined == "undefined"
ServiceIds == {"A", "B", "C"}

(***************************************************************************)
(* Generic helpers.                                                        *)
(***************************************************************************)
Range(s) == {s[i] : i \in 1..Len(s)}

Min(a, b) == IF a <= b THEN a ELSE b

Max(a, b) == IF a >= b THEN a ELSE b

Contains(s, x) == \E i \in 1..Len(s) : s[i] = x

\* Set.add / Array.from(new Set([...s, x])): append unless already present
SetAdd(s, x) == IF Contains(s, x) THEN s ELSE Append(s, x)

\* Set.delete
SetDelete(s, x) == SelectSeq(s, LAMBDA y : y # x)

RECURSIVE SetAddAll(_, _)
SetAddAll(s, xs) ==
    IF xs = <<>> THEN s ELSE SetAddAll(SetAdd(s, Head(xs)), Tail(xs))

RECURSIVE SetDeleteAll(_, _)
SetDeleteAll(s, xs) ==
    IF xs = <<>> THEN s ELSE SetDeleteAll(SetDelete(s, Head(xs)), Tail(xs))

(***************************************************************************)
(* ServiceGraph                                                            *)
(***************************************************************************)
EdgeSources ==
    {"config", "manual", "backstage", "otel", "kube-labels", "inferred",
     "discovered", "import", "mcp-import"}

\* the id `${source}->${target}` of an edge
EdgeId(source, target) == <<source, target>>

Graph(n, e, o, i) == [nodes |-> n, edges |-> e, outgoing |-> o, incoming |-> i]

\* createServiceGraph(): four empty maps
EmptyGraph == Graph(<<>>, <<>>, <<>>, <<>>)

\* Map.has / Map.get on a sequence of records keyed by .id
HasId(s, id) == \E i \in 1..Len(s) : s[i].id = id

GetById(s, id) == s[CHOOSE i \in 1..Len(s) : s[i].id = id]

\* Map.set: replace in place, or append
PutById(s, rec) ==
    IF HasId(s, rec.id)
    THEN [i \in 1..Len(s) |-> IF s[i].id = rec.id THEN rec ELSE s[i]]
    ELSE Append(s, rec)

DeleteById(s, id) == SelectSeq(s, LAMBDA r : r.id # id)

\* map.get(k) || new Set()
AdjOf(adj, id) == IF id \in DOMAIN adj THEN adj[id] ELSE <<>>

\* if (!map.has(k)) map.set(k, new Set()); map.get(k).add(x)
AdjAdd(adj, id, x) ==
    [k \in (DOMAIN adj) \cup {id} |-> IF k = id THEN SetAdd(AdjOf(adj, id), x) ELSE adj[k]]

\* if (!map.has(k)) map.set(k, new Set())
AdjEnsure(adj, id) ==
    [k \in (DOMAIN adj) \cup {id} |-> IF k \in DOMAIN adj THEN adj[k] ELSE <<>>]

\* variant that leaves the set as it is
AdjRemove_Kept(adj, id, x) == adj

\* map.get(k)?.delete(x)
AdjRemove(adj, id, x) ==
    [k \in DOMAIN adj |-> IF k = id THEN SetDelete(adj[k], x) ELSE adj[k]]

\* map.delete(k)
AdjDrop(adj, id) == [k \in (DOMAIN adj) \ {id} |-> adj[k]]

inferEdgeSource(metaSource) ==
    IF metaSource \in EdgeSources THEN metaSource ELSE "manual"

normalizeConfidence(confidence) ==
    IF confidence = <<>> THEN 100 ELSE Max(0, Min(100, confidence[1]))

CriticalityOrder(c) ==
    CASE c = "critical" -> 0
      [] c = "degraded" -> 1
      [] c = "optional" -> 2

\* variant that keeps the more critical of the two
mergeCriticality_Strongest(a, b) ==
    IF CriticalityOrder(a) <= CriticalityOrder(b) THEN a ELSE b

mergeCriticality(a, b) ==
    IF CriticalityOrder(a) >= CriticalityOrder(b) THEN a ELSE b

\* addService: the node record is replaced, the adjacency sets are kept
addService(G, service) ==
    Graph(PutById(G.nodes, service),
          G.edges,
          AdjEnsure(G.outgoing, service.id),
          AdjEnsure(G.incoming, service.id))

\* addDependency: one edge per ordered pair, re-adding overwrites
addDependency(G, edge) ==
    LET id == EdgeId(edge.source, edge.target)
        fullEdge ==
            [id |-> id,
             source |-> edge.source,
             target |-> edge.target,
             criticality |-> edge.criticality,
             edgeSource |-> IF edge.edgeSource # Undefined
                            THEN edge.edgeSource
                            ELSE inferEdgeSource(edge.metaSource),
             confidence |-> <<normalizeConfidence(edge.confidence)>>,
             metaSource |-> edge.metaSource]
    IN  Graph(G.nodes,
              PutById(G.edges, fullEdge),
              AdjAdd(G.outgoing, edge.source, id),
              AdjAdd(G.incoming, edge.target, id))

RECURSIVE RemoveOutgoing(_, _, _)
RemoveOutgoing(G, edgeIds, i) ==
    IF i > Len(edgeIds) THEN G
    ELSE IF HasId(G.edges, edgeIds[i])
         THEN LET edge == GetById(G.edges, edgeIds[i])
              IN  RemoveOutgoing(
                      Graph(G.nodes,
                            DeleteById(G.edges, edge.id),
                            G.outgoing,
                            AdjRemove(G.incoming, edge.target, edge.id)),
                      edgeIds, i + 1)
         ELSE RemoveOutgoing(G, edgeIds, i + 1)

\* variant that leaves the incoming edges of the node alone
RemoveIncoming_Skipped(G, edgeIds, i) == G

RECURSIVE RemoveIncoming(_, _, _)
RemoveIncoming(G, edgeIds, i) ==
    IF i > Len(edgeIds) THEN G
    ELSE IF HasId(G.edges, edgeIds[i])
         THEN LET edge == GetById(G.edges, edgeIds[i])
              IN  RemoveIncoming(
                      Graph(G.nodes,
                            DeleteById(G.edges, edge.id),
                            AdjRemove(G.outgoing, edge.source, edge.id),
                            G.incoming),
                      edgeIds, i + 1)
         ELSE RemoveIncoming(G, edgeIds, i + 1)

\* removeService: the two loops run over the node's own (live) adjacency sets
removeService(G, id) ==
    IF ~HasId(G.nodes, id) THEN G
    ELSE LET G1 == RemoveOutgoing(G, AdjOf(G.outgoing, id), 1)
             G2 == RemoveIncoming(G1, AdjOf(G1.incoming, id), 1)
         IN  Graph(DeleteById(G2.nodes, id),
                   G2.edges,
                   AdjDrop(G2.outgoing, id),
                   AdjDrop(G2.incoming, id))

(***************************************************************************)
(* Impact traversal: a depth-first walk that shares one visited set and    *)
(* one result list over the whole traversal.                               *)
(***************************************************************************)
\* variant of the depth test that never stops the walk
depthExceeded_Never(depth, maxDepth) == FALSE

\* depth > maxDepth
depthExceeded(depth, maxDepth) == depth > maxDepth

RECURSIVE traverse(_, _, _, _, _, _, _, _, _, _, _)
RECURSIVE traverseEdges(_, _, _, _, _, _, _, _, _, _, _, _)

\* st = [paths, visited]: the two accumulators the closure captures
traverse(G, dir, serviceId, maxDepth, st, current, path, depth, criticality, confidence, edgeSources) ==
    IF depthExceeded(depth, maxDepth) \/ Contains(st.visited, current) THEN st
    ELSE traverseEdges(G, dir, serviceId, maxDepth,
                       [st EXCEPT !.visited = Append(@, current)],
                       IF dir = "upstream" THEN AdjOf(G.incoming, current)
                                           ELSE AdjOf(G.outgoing, current),
                       1, path, depth, criticality, confidence, edgeSources)

traverseEdges(G, dir, serviceId, maxDepth, st, edgeIds, i, path, depth, criticality, confidence, edgeSources) ==
    IF i > Len(edgeIds) THEN st
    ELSE IF ~HasId(G.edges, edgeIds[i])
         THEN traverseEdges(G, dir, serviceId, maxDepth, st, edgeIds, i + 1,
                            path, depth, criticality, confidence, edgeSources)
         ELSE LET edge == GetById(G.edges, edgeIds[i])
                  next == IF dir = "upstream" THEN edge.source ELSE edge.target
                  newPath == Append(path, next)
                  newCriticality == mergeCriticality(criticality, edge.criticality)
                  newConfidence == Min(confidence, normalizeConfidence(edge.confidence))
                  newEdgeSources ==
                      SetAdd(edgeSources,
                             IF edge.edgeSource # Undefined
                             THEN edge.edgeSource
                             ELSE inferEdgeSource(edge.metaSource))
                  impact == [source |-> serviceId,
                             affected |-> next,
                             path |-> newPath,
                             hops |-> Len(newPath),
                             criticality |-> newCriticality,
                             confidence |-> newConfidence,
                             edgeSources |-> newEdgeSources]
                  st1 == traverse(G, dir, serviceId, maxDepth,
                                  [st EXCEPT !.paths = Append(@, impact)],
                                  next, newPath, depth + 1,
                                  newCriticality, newConfidence, newEdgeSources)
              IN  traverseEdges(G, dir, serviceId, maxDepth, st1, edgeIds, i + 1,
                                path, depth, criticality, confidence, edgeSources)

\* paths.sort((a, b) => a.hops - b.hops): a stable sort of paths whose hops lie in
\* h..maxHops; a path is longer than the one it extends, so no hops exceeds the
\* number of paths by more than one
RECURSIVE SortByHops(_, _, _)
SortByHops(paths, h, maxHops) ==
    IF h > maxHops THEN <<>>
    ELSE SelectSeq(paths, LAMBDA p : p.hops = h) \o SortByHops(paths, h + 1, maxHops)

impactPaths(G, dir, serviceId, maxDepth) ==
    LET st == traverse(G, dir, serviceId, maxDepth,
                       [paths |-> <<>>, visited |-> <<>>],
                       serviceId, <<serviceId>>, 0, "critical", 100, <<>>)
    IN  SortByHops(st.paths, 2, Len(st.paths) + 1)

getUpstreamImpact(G, serviceId, maxDepth) ==
    impactPaths(G, "upstream", serviceId, maxDepth)

\* variant that walks the incoming edges
getDownstreamImpact_Incoming(G, serviceId, maxDepth) ==
    impactPaths(G, "upstream", serviceId, maxDepth)

getDownstreamImpact(G, serviceId, maxDepth) ==
    impactPaths(G, "downstream", serviceId, maxDepth)

(***************************************************************************)
(* BlastRadiusAnalyzer                                                     *)
(***************************************************************************)
DefaultMaxDepth == 3
EvidenceCap == 40
HighConfidence == 75
VeryHighConfidence == 90

\* variant that never looks at the edge sources of the path
isHighConfidencePath_IgnoringSources(path) == path.confidence >= HighConfidence

isHighConfidencePath(path) ==
    IF path.confidence < HighConfidence THEN FALSE
    ELSE IF Contains(path.edgeSources, "inferred") /\ path.confidence < VeryHighConfidence
         THEN FALSE
         ELSE TRUE

\* variant of the risk rule without the special case of a database migration
computeRiskLevel_NoMigration(directCount, downstreamCount, criticalPath, changeType) ==
    IF criticalPath THEN "critical"
    ELSE IF downstreamCount > 10 \/ directCount > 3 THEN "high"
    ELSE IF downstreamCount > 3 \/ directCount > 1 THEN "medium"
    ELSE "low"

computeRiskLevel(directCount, downstreamCount, criticalPath, changeType) ==
    IF criticalPath THEN "critical"
    ELSE IF downstreamCount > 10 \/ directCount > 3 THEN "high"
    ELSE IF downstreamCount > 3 \/ directCount > 1 THEN "medium"
    ELSE IF changeType = "db_migration" /\ directCount > 0 THEN "medium"
    ELSE "low"

\* the graph_path evidence entry of one impact path
PathEvidence(path) ==
    [type |-> "graph_path",
     label |-> path.path,
     from |-> path.source,
     to |-> path.affected,
     hops |-> path.hops - 1,
     criticality |-> path.criticality,
     confidence |-> path.confidence,
     edgeSources |-> path.edgeSources]

\* dedupeEvidence: first entry of every type|label|url key
RECURSIVE dedupeEvidence(_, _)
dedupeEvidence(evidence, seen) ==
    IF evidence = <<>> THEN <<>>
    ELSE LET key == <<Head(evidence).type, Head(evidence).label>>
         IN  IF key \in seen
             THEN dedupeEvidence(Tail(evidence), seen)
             ELSE <<Head(evidence)>> \o dedupeEvidence(Tail(evidence), seen \cup {key})

buildRationale(targets, direct, downstream, high, possible, criticalPath, riskLevel, changeType) ==
    <<[tag |-> "targets", value |-> targets]>>
    \o (IF Len(direct) > 0 THEN <<[tag |-> "direct", value |-> direct]>> ELSE <<>>)
    \o (IF Len(downstream) > 0
        THEN <<[tag |-> "downstream", value |-> Len(downstream)]>> ELSE <<>>)
    \o (IF Len(high) > 0 THEN <<[tag |-> "high-confidence", value |-> high]>> ELSE <<>>)
    \o (IF Len(possible) > 0
        THEN <<[tag |-> "possible", value |-> Len(possible)]>> ELSE <<>>)
    \o (IF criticalPath THEN <<[tag |-> "critical-path", value |-> TRUE]>> ELSE <<>>)
    \o (IF Len(direct) = 0 /\ Len(downstream) = 0
        THEN <<[tag |-> "isolated", value |-> TRUE]>> ELSE <<>>)
    \o (IF changeType # Undefined
        THEN <<[tag |-> "change-type", value |-> changeType]>> ELSE <<>>)
    \o <<[tag |-> "risk", value |-> riskLevel]>>

\* the loop over the impact paths of one target: acc holds the four sets,
\* the critical-path flag, the evidence and the collected paths
RECURSIVE classifyPaths(_, _)
classifyPaths(acc, paths) ==
    IF paths = <<>> THEN acc
    ELSE LET path == Head(paths)
             high == isHighConfidencePath(path)
         IN  classifyPaths(
                 [directServices |->
                      IF path.hops <= 2 THEN SetAdd(acc.directServices, path.affected)
                                        ELSE acc.directServices,
                  downstreamServices |->
                      IF path.hops <= 2 THEN acc.downstreamServices
                                        ELSE SetAdd(acc.downstreamServices, path.affected),
                  highConfidenceDependents |->
                      IF high THEN SetAdd(acc.highConfidenceDependents, path.affected)
                              ELSE acc.highConfidenceDependents,
                  possibleDependents |->
                      IF high THEN acc.possibleDependents
                              ELSE SetAdd(acc.possibleDependents, path.affected),
                  criticalPathAffected |->
                      acc.criticalPathAffected \/ path.criticality = "critical",
                  evidence |-> Append(acc.evidence, PathEvidence(path)),
                  allImpactPaths |-> Append(acc.allImpactPaths, path)],
                 Tail(paths))

RECURSIVE classifyTargets(_, _, _, _)
classifyTargets(G, acc, targetServices, maxDepth) ==
    IF targetServices = <<>> THEN acc
    ELSE classifyTargets(
             G,
             classifyPaths(acc, getUpstreamImpact(G, Head(targetServices), maxDepth)),
             Tail(targetServices), maxDepth)

\* variant that leaves the targets in the bucket
removeTargets_Kept(bucket, targetServices) == bucket

\* Remove targets from all dependent buckets
removeTargets(bucket, targetServices) == SetDeleteAll(bucket, targetServices)

\* Remove direct services from downstream to avoid double counting
removeDirect(downstream, direct) == SetDeleteAll(downstream, direct)

predict(G, targetServices, changeType, maxDepth) ==
    LET acc == classifyTargets(
                   G,
                   [directServices |-> <<>>, downstreamServices |-> <<>>,
                    highConfidenceDependents |-> <<>>, possibleDependents |-> <<>>,
                    criticalPathAffected |-> FALSE, evidence |-> <<>>,
                    allImpactPaths |-> <<>>],
                   targetServices, maxDepth)
        direct == removeTargets(acc.directServices, targetServices)
        downstream ==
            removeDirect(removeTargets(acc.downstreamServices, targetServices), direct)
        high == removeTargets(acc.highConfidenceDependents, targetServices)
        possible == removeTargets(acc.possibleDependents, targetServices)
        riskLevel == computeRiskLevel(Len(direct), Len(downstream),
                                      acc.criticalPathAffected, changeType)
        evidence == dedupeEvidence(acc.evidence, {})
    IN  [directServices |-> direct,
         downstreamServices |-> downstream,
         highConfidenceDependents |-> high,
         possibleDependents |-> possible,
         criticalPathAffected |-> acc.criticalPathAffected,
         riskLevel |-> riskLevel,
         impactPaths |-> acc.allImpactPaths,
         confidenceSummary |-> [highConfidenceCount |-> Len(high),
                                possibleCount |-> Len(possible)],
         evidence |-> SubSeq(evidence, 1, Min(Len(evidence), EvidenceCap)),
         rationale |-> buildRationale(targetServices, direct, downstream, high,
                                      possible, acc.criticalPathAffected,
                                      riskLevel, changeType)]

(***************************************************************************)
(* ChangeCorrelator: service expansion and the service-overlap factor      *)
(***************************************************************************)
DirectScore == 100
OneHopScore == 70
TwoHopScore == 40

\* if (!expanded.has(path.affected)) expanded.set(path.affected, hop)
RECURSIVE setIfAbsent(_, _, _)
setIfAbsent(expanded, paths, hop) ==
    IF paths = <<>> THEN expanded
    ELSE setIfAbsent(
             IF HasId(expanded, Head(paths).affected) THEN expanded
             ELSE Append(expanded, [id |-> Head(paths).affected, hops |-> hop]),
             Tail(paths), hop)

\* the Map<string, number> is a sequence of [id, hops] entries
RECURSIVE expandServices(_, _, _)
expandServices(G, expanded, services) ==
    IF services = <<>> THEN expanded
    ELSE LET svc == Head(services)
             e0 == PutById(expanded, [id |-> svc, hops |-> 0])
             e1 == setIfAbsent(e0, getUpstreamImpact(G, svc, 1), 1)
             e2 == setIfAbsent(e1, getDownstreamImpact(G, svc, 1), 1)
             e3 == setIfAbsent(e2, getUpstreamImpact(G, svc, 2), 2)
             e4 == setIfAbsent(e3, getDownstreamImpact(G, svc, 2), 2)
         IN  expandServices(G, e4, Tail(services))

\* unique(values): distinct values in first-occurrence order
RECURSIVE unique(_)
unique(values) ==
    IF values = <<>> THEN <<>>
    ELSE <<Head(values)>>
         \o unique(SelectSeq(Tail(values), LAMBDA v : v # Head(values)))

\* the service-overlap part of scoreChange, over [change.service, ...additionalServices]
RECURSIVE scoreServices(_, _, _, _)
scoreServices(acc, allChangeServices, directServices, expanded) ==
    IF allChangeServices = <<>> THEN acc
    ELSE LET svc == Head(allChangeServices)
             hit(score, tag) ==
                 [serviceScore |-> Max(acc.serviceScore, score),
                  serviceOverlap |-> Append(acc.serviceOverlap, svc),
                  reasons |-> Append(acc.reasons, [tag |-> tag, service |-> svc])]
             next ==
                 IF Contains(directServices, svc)
                 THEN hit(DirectScore, "Direct service match")
                 ELSE IF HasId(expanded, svc) /\ GetById(expanded, svc).hops = 1
                      THEN hit(OneHopScore, "1-hop graph neighbor")
                      ELSE IF HasId(expanded, svc) /\ GetById(expanded, svc).hops = 2
                           THEN hit(TwoHopScore, "2-hop graph neighbor")
                           ELSE acc
         IN  scoreServices(next, Tail(allChangeServices), directServices, expanded)

\* query({services}): service = ? OR additional_services LIKE '%"?"%'
matchesServices(change, services) ==
    \E i \in 1..Len(services) :
        \/ change.service = services[i]
        \/ Contains(change.additionalServices, services[i])

\* correlateWithIncident for one stored change inside the time window: is it
\* a candidate, and what the service-overlap part of its correlation is
correlateWithIncident(G, affectedServices, change) ==
    LET expanded == expandServices(G, <<>>, affectedServices)
        keys == [i \in 1..Len(expanded) |-> expanded[i].id]
        scored == scoreServices(
                      [serviceScore |-> 0, serviceOverlap |-> <<>>, reasons |-> <<>>],
                      <<change.service>> \o change.additionalServices,
                      affectedServices, expanded)
    IN  [candidate |-> Len(expanded) = 0 \/ matchesServices(change, keys),
         expandedServices |-> expanded,
         serviceOverlap |-> unique(scored.serviceOverlap),
         correlationReasons |-> unique(scored.reasons),
         serviceAdjacency |-> scored.serviceScore]

(***************************************************************************)
(* ChangeEventStore.  The table is the sequence of its rows in rowid       *)
(* order.  A column that holds JSON text is the pair <<"json", value>>; a  *)
(* NULL column is <<>>.                                                     *)
(***************************************************************************)
\* a const binding: the one value of the singleton S, computed once
Once(S) == CHOOSE value \in S : TRUE

\* JavaScript truthiness of an optional string
Truthy(s) == s # Undefined /\ s # ""

JSONstringify(value) == <<"json", value>>

JSONparse(text) == text[2]

Database(r, n) == [rows |-> r, nextId |-> n]

rowToEvent(row) ==
    [id |-> row.id,
     timestamp |-> row.timestamp,
     service |-> row.service,
     additionalServices |-> JSONparse(row.additional_services),
     changeType |-> row.change_type,
     summary |-> row.summary,
     filesChanged |-> <<JSONparse(row.files_changed)>>,
     idempotencyKey |-> IF row.idempotency_key = <<>> THEN Undefined
                        ELSE row.idempotency_key[1],
     blastRadius |-> IF row.blast_radius = <<>> THEN <<>>
                     ELSE <<JSONparse(row.blast_radius[1])>>,
     createdAt |-> row.created_at,
     updatedAt |-> row.updated_at]

get(r, id) == IF HasId(r, id) THEN <<rowToEvent(GetById(r, id))>> ELSE <<>>

\* variant of the key lookup that never finds a row
getByIdempotencyKey_Missing(r, key) == <<>>

\* SELECT * FROM change_events WHERE idempotency_key = ?
getByIdempotencyKey(r, key) ==
    IF \E i \in 1..Len(r) : r[i].idempotency_key = <<key>>
    THEN <<rowToEvent(r[CHOOSE i \in 1..Len(r) : r[i].idempotency_key = <<key>>])>>
    ELSE <<>>

\* the unique index on idempotency_key (NULLs excepted) rejects the row
UniqueViolation(r, row) ==
    /\ row.idempotency_key # <<>>
    /\ getByIdempotencyKey(r, row.idempotency_key[1]) # <<>>

\* the rowid SQLite gives a new row of a table without an integer key: one more
\* than the largest in use
nextRowid(r) ==
    IF r = <<>> THEN 1
    ELSE 1 + (CHOOSE m \in {r[i].rowid : i \in 1..Len(r)} :
                  \A i \in 1..Len(r) : r[i].rowid <= m)

\* stmt.run rejects the row: a required column (TEXT NOT NULL) is given no value
NotNullViolation(row) ==
    \/ row.service = Undefined
    \/ row.summary = Undefined
    \/ row.change_type = Undefined

\* insert: the id is a fresh UUID, the clock is read once; the result is the
\* in-memory event, not the row read back
insert(db, event, t) ==
    LET full == [id |-> db.nextId,
                 timestamp |-> IF event.timestamp = <<>> THEN t ELSE event.timestamp[1],
                 service |-> event.service,
                 additionalServices |-> event.additionalServices,
                 changeType |-> event.changeType,
                 summary |-> event.summary,
                 filesChanged |-> event.filesChanged,
                 idempotencyKey |-> event.idempotencyKey,
                 blastRadius |-> <<>>,
                 createdAt |-> t,
                 updatedAt |-> t]
        row == [rowid |-> nextRowid(db.rows),
                id |-> full.id,
                timestamp |-> full.timestamp,
                service |-> full.service,
                additional_services |-> JSONstringify(full.additionalServices),
                change_type |-> full.changeType,
                summary |-> full.summary,
                files_changed |-> JSONstringify(IF full.filesChanged = <<>> THEN <<>>
                                                ELSE full.filesChanged[1]),
                idempotency_key |-> IF Truthy(full.idempotencyKey)
                                    THEN <<full.idempotencyKey>> ELSE <<>>,
                blast_radius |-> <<>>,
                created_at |-> full.createdAt,
                updated_at |-> full.updatedAt]
    IN  IF UniqueViolation(db.rows, row) \/ NotNullViolation(row)
        THEN [thrown |-> TRUE, db |-> Database(db.rows, db.nextId + 1), full |-> full]
        ELSE [thrown |-> FALSE,
              db |-> Database(Append(db.rows, row), db.nextId + 1),
              full |-> full]

\* the updates a caller passes: each key is <<>> when absent from the object
Updates(summary, blastRadius) == [summary |-> summary, blastRadius |-> blastRadius]

update(r, id, updates, t) ==
    IF get(r, id) = <<>> THEN [rows |-> r, event |-> <<>>]
    ELSE IF updates.summary = <<>> /\ updates.blastRadius = <<>>
    THEN [rows |-> r, event |-> get(r, id)]
    ELSE LET set(row) ==
                 [row EXCEPT
                      !.summary = IF updates.summary = <<>> THEN @ ELSE updates.summary[1],
                      !.blast_radius = IF updates.blastRadius = <<>> THEN @
                                       ELSE <<JSONstringify(updates.blastRadius[1])>>,
                      !.updated_at = t]
             updated == [i \in 1..Len(r) |-> IF r[i].id = id THEN set(r[i]) ELSE r[i]]
         IN  [rows |-> updated, event |-> get(updated, id)]

delete(r, id) == [rows |-> DeleteById(r, id), deleted |-> HasId(r, id)]

\* days are the unit of the clock
pruneOlderThan(r, days, t) ==
    LET cutoff == t - days
        kept == SelectSeq(r, LAMBDA row : ~(row.timestamp < cutoff))
    IN  [rows |-> kept, changes |-> Len(r) - Len(kept)]

(***************************************************************************)
(* The full-text index change_events_fts over summary and service, kept by *)
(* the three triggers of initSchema.  An entry is the text indexed for one *)
(* rowid.                                                                  *)
(***************************************************************************)
Indexed(rowid, summary, service) ==
    [rowid |-> rowid, summary |-> summary, service |-> service]

\* INSERT INTO change_events_fts(rowid, summary, service) VALUES (...)
ftsInsert(index, rowid, summary, service) ==
    Append(index, Indexed(rowid, summary, service))

\* INSERT INTO change_events_fts(change_events_fts, rowid, summary, service)
\* VALUES('delete', ...): takes out what was indexed for the rowid with these values
ftsDelete(index, rowid, summary, service) ==
    SelectSeq(index, LAMBDA entry : entry # Indexed(rowid, summary, service))

\* trigger ce_ai AFTER INSERT
ce_ai(index, new) == ftsInsert(index, new.rowid, new.summary, new.service)

\* trigger ce_ad AFTER DELETE
ce_ad(index, old) == ftsDelete(index, old.rowid, old.summary, old.service)

\* variant of the schema without the work of the update trigger
ce_au_Missing(index, old, new) == index

\* trigger ce_au AFTER UPDATE
ce_au(index, old, new) ==
    ftsInsert(ftsDelete(index, old.rowid, old.summary, old.service),
              new.rowid, new.summary, new.service)

\* the triggers fired by the statements that took the table from `before` to
\* `after`, row by row in rowid order: deleted rows, updated rows, new rows
RECURSIVE fireDeleted(_, _, _, _)
fireDeleted(index, before, after, i) ==
    IF i > Len(before) THEN index
    ELSE Once({fireDeleted(next, before, after, i + 1) :
               next \in {IF HasId(after, before[i].id) THEN index
                         ELSE ce_ad(index, before[i])}})

RECURSIVE fireWritten(_, _, _, _)
fireWritten(index, before, after, i) ==
    IF i > Len(after) THEN index
    ELSE Once({fireWritten(next, before, after, i + 1) :
               next \in {IF ~HasId(before, after[i].id) THEN ce_ai(index, after[i])
                         ELSE IF GetById(before, after[i].id) = after[i] THEN index
                         ELSE ce_au(index, GetById(before, after[i].id), after[i])}})

fireTriggers(index, before, after) ==
    Once({fireWritten(cleared, before, after, 1) :
          cleared \in {fireDeleted(index, before, after, 1)}})

(***************************************************************************)
(* WebhookDispatcher.  dispatch only queues a setImmediate callback; the   *)
(* callback holds the event object it was given.                           *)
(***************************************************************************)
Registrations == <<[id |-> "hook", active |-> TRUE, services |-> <<>>]>>

getActive == SelectSeq(Registrations, LAMBDA reg : reg.active)

matchesFilters(event, reg) ==
    ~(Len(reg.services) > 0 /\ ~Contains(reg.services, event.service))

dispatch(queue, event) == Append(queue, event)

\* the registrations the callback delivers the event to
deliverToAll(event) == SelectSeq(getActive, LAMBDA reg : matchesFilters(event, reg))

(***************************************************************************)
(* Ingest routes.  A handler runs to completion before anything else does; *)
(* its reply records, next to the status and the results it sends, the     *)
(* request it answered, the ids of the rows it added, the number of        *)
(* callbacks it queued and the steps it went through, in order.            *)
(***************************************************************************)
BatchMax == 1000

Step(name, id) == [step |-> name, id |-> id]

Result(index, id, status, event) ==
    [index |-> index, id |-> id, status |-> status, event |-> event]

NewIds(before, after) == {after[i].id : i \in 1..Len(after)} \ {before[i].id : i \in 1..Len(before)}

Reply(route, status, request, results, stored, queued, steps) ==
    [route |-> route, status |-> status, request |-> request, results |-> results,
     stored |-> stored, queued |-> queued, steps |-> steps]

\* a queued setImmediate callback: the event it closes over, and for the record
\* the route that queued it and whether that route's writes were committed
Callback(event, route, committed) ==
    [event |-> event, route |-> route, committed |-> committed]

Callbacks(events, route, committed) ==
    [i \in 1..Len(events) |-> Callback(events[i], route, committed)]

CreateEventSchemaOk(eventData) == eventData.service # "" /\ eventData.summary # ""

\* variant of the batch schema that validates the first event only
BatchSchemaOk_FirstOnly(events) ==
    Len(events) >= 1 /\ Len(events) <= BatchMax /\ CreateEventSchemaOk(events[1])

BatchSchemaOk(events) ==
    /\ Len(events) >= 1
    /\ Len(events) <= BatchMax
    /\ \A i \in 1..Len(events) : CreateEventSchemaOk(events[i])

\* variant of the idempotency check that never looks the key up
checkIdempotency_Skipped(r, eventData) == <<>>

\* Check idempotency
checkIdempotency(r, eventData) ==
    IF Truthy(eventData.idempotencyKey)
    THEN getByIdempotencyKey(r, eventData.idempotencyKey)
    ELSE <<>>

\* Auto-compute blast radius: the prediction is written to the row and set on
\* the in-memory event
attachBlastRadius(G, r, event, t) ==
    LET services == <<event.service>> \o event.additionalServices
    IN  Once({[rows |-> update(r, event.id, Updates(<<>>, <<prediction>>), t).rows,
               event |-> [event EXCEPT !.blastRadius = <<prediction>>]] :
              prediction \in {predict(G, services, event.changeType, DefaultMaxDepth)}})

\* one turn of the loop in the batch transaction, for event i at clock t;
\* failAt is the event whose insert meets a store error (0: none)
batchStep(G, st, eventData, i, t, failAt) ==
    LET existing == checkIdempotency(st.db.rows, eventData)
        created(ins, att) ==
            [st EXCEPT
                 !.db = Database(att.rows, ins.db.nextId),
                 !.scheduled = dispatch(@, att.event),
                 !.results = Append(@, Result(i - 1, att.event.id, "created",
                                              <<att.event>>)),
                 !.created = @ + 1,
                 !.steps = @ \o <<Step("persist", att.event.id),
                                  Step("attach", att.event.id),
                                  Step("schedule", att.event.id)>>]
        inserted(ins) ==
            IF ins.thrown \/ failAt = i
            THEN [st EXCEPT !.thrown = TRUE, !.db = Database(st.db.rows, ins.db.nextId)]
            ELSE Once({created(ins, att) :
                       att \in {attachBlastRadius(G, ins.db.rows, ins.full, t)}})
    IN  IF existing # <<>>
        THEN [st EXCEPT
                  !.results = Append(@, Result(i - 1, existing[1].id, "duplicate",
                                               existing)),
                  !.duplicates = @ + 1]
        ELSE Once({inserted(ins) : ins \in {insert(st.db, eventData, t)}})

\* the body of the batch transaction from event i on; a throw ends the loop
RECURSIVE batchLoop(_, _, _, _, _, _)
batchLoop(G, st, events, i, t, failAt) ==
    IF i > Len(events) \/ st.thrown THEN st
    ELSE Once({batchLoop(G, next, events, i + 1, t, failAt) :
               next \in {batchStep(G, st, events[i], i, t, failAt)}})

\* store.transaction(fn): commit what fn wrote, or roll it back when fn threw
transaction(before, after) ==
    IF after.thrown
    THEN [after EXCEPT !.db = Database(before.rows, after.db.nextId),
                       !.steps = <<Step("begin", 0)>> \o @ \o <<Step("rollback", 0)>>]
    ELSE [after EXCEPT !.steps = <<Step("begin", 0)>> \o @ \o <<Step("commit", 0)>>]

\* variant of the status choice that always answers 201
statusCode_Created(created) == 201

statusCode(created) == IF created > 0 THEN 201 ELSE 200

(***************************************************************************)
(* Specifications of the analytical calls.  The graph starts as a loaded   *)
(* config with the three services and no dependency; dependencies are      *)
(* added one at a time and the analyzer or the correlator is called on the *)
(* graph as it stands.                                                     *)
(***************************************************************************)
ConfigNode(id) ==
    [id |-> id, team |-> Undefined, owner |-> Undefined, metaSource |-> "config"]

LoadedGraph ==
    addService(addService(addService(EmptyGraph, ConfigNode("A")),
                          ConfigNode("B")),
               ConfigNode("C"))

\* the attributes an added dependency may carry
EdgeAttrs(criticality, edgeSource, confidence, metaSource) ==
    [criticality |-> criticality, edgeSource |-> edgeSource,
     confidence |-> confidence, metaSource |-> metaSource]

\* a measured edge, and inferred edges above and below 0.9
BlastKinds ==
    {EdgeAttrs("critical", "otel", <<80>>, Undefined),
     EdgeAttrs("optional", "inferred", <<95>>, Undefined),
     EdgeAttrs("degraded", Undefined, <<60>>, "inferred")}

PlainKinds == {EdgeAttrs("critical", Undefined, <<>>, "config")}

\* non-empty target lists, with repetition
ServiceLists ==
    {<<a>> : a \in ServiceIds} \cup {<<a, b>> : a \in ServiceIds, b \in ServiceIds}

\* one target, or two different targets in either order
TargetLists ==
    {<<a>> : a \in ServiceIds} \cup {l \in ServiceIds \X ServiceIds : l[1] # l[2]}

CurrentGraph == Graph(nodes, edges, outgoing, incoming)

InitStore ==
    /\ rows = <<>>
    /\ fts = <<>>
    /\ nextId = 1
    /\ now = 0
    /\ immediates = <<>>
    /\ delivery = [event |-> <<>>, route |-> "none", committed |-> TRUE, stored |-> <<>>]
    /\ response = Reply("none", 0, <<>>, <<>>, {}, 0, <<>>)

InitGraph ==
    /\ nodes = LoadedGraph.nodes
    /\ edges = LoadedGraph.edges
    /\ outgoing = LoadedGraph.outgoing
    /\ incoming = LoadedGraph.incoming
    /\ call = [op |-> "none"]
    /\ InitStore

SetGraph(G) ==
    /\ nodes' = G.nodes
    /\ edges' = G.edges
    /\ outgoing' = G.outgoing
    /\ incoming' = G.incoming

AddDependency(kinds) ==
    \E source \in ServiceIds, target \in ServiceIds, k \in kinds :
        /\ call.op = "none"
        /\ \/ Len(edges) < MaxEdges
           \/ HasId(edges, EdgeId(source, target))
        /\ SetGraph(addDependency(CurrentGraph,
                                  [source |-> source, target |-> target,
                                   criticality |-> k.criticality,
                                   edgeSource |-> k.edgeSource,
                                   confidence |-> k.confidence,
                                   metaSource |-> k.metaSource]))
        /\ UNCHANGED <<call, storeVars>>

AddBlastDependency == AddDependency(BlastKinds)

AddPlainDependency == AddDependency(PlainKinds)

\* POST /blast-radius, and the prediction attached on ingest
Predict ==
    \E targets \in TargetLists, changeType \in {Undefined, "db_migration"} :
        /\ call.op = "none"
        /\ call' = [op |-> "predict", targets |-> targets, changeType |-> changeType,
                    result |-> predict(CurrentGraph, targets, changeType, DefaultMaxDepth)]
        /\ UNCHANGED <<graphVars, storeVars>>

\* a correlation request against one stored change inside the window
Correlate ==
    \E affected \in ServiceLists, service \in ServiceIds,
       additional \in {<<>>} \cup {<<a>> : a \in ServiceIds} :
        /\ call.op = "none"
        /\ call' = [op |-> "correlate", affected |-> affected,
                    change |-> [service |-> service, additionalServices |-> additional],
                    result |-> correlateWithIncident(
                                   CurrentGraph, affected,
                                   [service |-> service, additionalServices |-> additional])]
        /\ UNCHANGED <<graphVars, storeVars>>

\* the reply has been sent; the next request can be served
Respond ==
    /\ call.op # "none"
    /\ call' = [op |-> "none"]
    /\ UNCHANGED <<graphVars, storeVars>>

NextBlast == AddBlastDependency \/ Predict \/ Respond

SpecBlast == InitGraph /\ [][NextBlast]_vars

NextCorrelate == AddPlainDependency \/ Correlate \/ Respond

SpecCorrelate == InitGraph /\ [][NextCorrelate]_vars

(***************************************************************************)
(* Specifications of the ingest paths.  The graph is a loaded config in    *)
(* which B depends on A.  Requests are served one at a time.               *)
(***************************************************************************)
IngestGraph ==
    addDependency(LoadedGraph,
                  [source |-> "B", target |-> "A", criticality |-> "degraded",
                   edgeSource |-> Undefined, confidence |-> <<>>,
                   metaSource |-> "config"])

\* a request body: a deployment without additionalServices or timestamp
EventData(service, summary, idempotencyKey, filesChanged) ==
    [service |-> service, summary |-> summary, idempotencyKey |-> idempotencyKey,
     filesChanged |-> filesChanged, changeType |-> "deployment",
     additionalServices |-> <<>>, timestamp |-> <<>>]

\* request bodies of the events API: two that share a key and differ otherwise,
\* one with the empty key, and one that fails validation
Payloads ==
    {EventData("A", "s1", "k1", <<>>),
     EventData("A", "s2", "k1", <<<<"f">>>>),
     EventData("A", "s1", "", <<>>),
     EventData("", "s1", "k1", <<>>)}

\* request bodies without an idempotency key: a valid one and an invalid one
PlainPayloads ==
    {EventData("A", "s1", Undefined, <<>>),
     EventData("", "s1", Undefined, <<>>)}

RECURSIVE SeqsUpTo(_, _)
SeqsUpTo(S, n) ==
    IF n = 0 THEN {<<>>}
    ELSE LET shorter == SeqsUpTo(S, n - 1)
         IN  shorter \cup {Append(s, x) : s \in {q \in shorter : Len(q) = n - 1}, x \in S}

Batches == SeqsUpTo(Payloads, MaxBatch)

PlainBatches == SeqsUpTo(PlainPayloads, MaxBatch)

\* what a provider webhook parses its payload to
ProviderEvent == EventData("A", "s1", Undefined, <<<<"f">>>>)

InitIngest ==
    /\ nodes = IngestGraph.nodes
    /\ edges = IngestGraph.edges
    /\ outgoing = IngestGraph.outgoing
    /\ incoming = IngestGraph.incoming
    /\ call = [op |-> "none"]
    /\ InitStore

\* the handler leaves the store and the queue as given and sends its reply
Serve(db, queue, route, status, request, results, steps) ==
    /\ rows' = db.rows
    /\ fts' = fireTriggers(fts, rows, db.rows)
    /\ nextId' = db.nextId
    /\ immediates' = queue
    /\ response' = Reply(route, status, request, results, NewIds(rows, db.rows),
                         Len(queue) - Len(immediates), steps)
    /\ UNCHANGED <<graphVars, call, delivery, now>>

Refuse(route, status, request) ==
    Serve(Database(rows, nextId), immediates, route, status, request, <<>>, <<>>)

\* insert, attach the blast radius, dispatch
Ingest(route, eventData, sendsEvent) ==
    \E ins \in {insert(Database(rows, nextId), eventData, now)} :
        IF ins.thrown
        THEN Serve(Database(rows, ins.db.nextId), immediates, route, 500,
                   <<eventData>>, <<>>, <<>>)
        ELSE \E att \in {attachBlastRadius(CurrentGraph, ins.db.rows, ins.full, now)} :
                 Serve(Database(att.rows, ins.db.nextId),
                       dispatch(immediates, Callback(att.event, route, TRUE)),
                       route, 201, <<eventData>>,
                       <<Result(0, att.event.id, "created",
                                IF sendsEvent THEN <<att.event>> ELSE <<>>)>>,
                       <<Step("persist", att.event.id), Step("attach", att.event.id),
                         Step("schedule", att.event.id)>>)

\* POST /api/v1/webhooks/agent
AgentWebhook ==
    \E data \in PlainPayloads :
        IF ~CreateEventSchemaOk(data)
        THEN Refuse("agent", 400, <<data>>)
        ELSE nextId <= MaxIds /\ Ingest("agent", data, FALSE)

\* POST /api/v1/webhooks/github
GithubWebhook ==
    \E parsed \in {<<>>, <<ProviderEvent>>} :
        IF parsed = <<>>
        THEN Refuse("github", 200, <<>>)
        ELSE \E ins \in {insert(Database(rows, nextId), parsed[1], now)} :
                 /\ nextId <= MaxIds
                 /\ Serve(ins.db,
                          dispatch(immediates, Callback(ins.full, "github", TRUE)),
                          "github", 201, parsed,
                          <<Result(0, ins.full.id, "created", <<>>)>>,
                          <<Step("persist", ins.full.id), Step("schedule", ins.full.id)>>)

\* POST /api/v1/events
PostEvent ==
    \E eventData \in Payloads :
        LET existing == checkIdempotency(rows, eventData)
        IN  IF ~CreateEventSchemaOk(eventData)
            THEN Refuse("events", 400, <<eventData>>)
            ELSE IF existing # <<>>
            THEN Serve(Database(rows, nextId), immediates, "events", 200, <<eventData>>,
                       <<Result(0, existing[1].id, "duplicate", existing)>>, <<>>)
            ELSE nextId <= MaxIds /\ Ingest("events", eventData, TRUE)

\* POST /api/v1/events/batch, for one of the given bodies; failAt is the event
\* whose insert meets a store error (0: none)
BatchRequest(bodies, failures) ==
    \E events \in bodies, failAt \in failures :
        IF ~BatchSchemaOk(events)
        THEN failAt = 0 /\ Refuse("batch", 400, events)
        ELSE failAt <= Len(events) /\
             \E before \in {Database(rows, nextId)} :
             \E start \in {[db |-> before, scheduled |-> <<>>, results |-> <<>>,
                             created |-> 0, duplicates |-> 0, steps |-> <<>>,
                             thrown |-> FALSE]} :
             \E done \in {transaction(before,
                                       batchLoop(CurrentGraph, start, events, 1, now,
                                                 failAt))} :
                 /\ done.db.nextId <= MaxIds + 1
                 /\ Serve(done.db,
                          immediates \o Callbacks(done.scheduled, "batch", ~done.thrown),
                          "batch",
                          IF done.thrown THEN 500 ELSE statusCode(done.created),
                          events,
                          IF done.thrown THEN <<>> ELSE done.results,
                          done.steps)

\* a batch against a healthy store
PostBatch == BatchRequest(Batches, {0})

\* a batch without idempotency keys against a store that may fail
PostPlainBatch == BatchRequest(PlainBatches, 0..MaxBatch)

\* PATCH /api/v1/events/:id
PatchEvent ==
    \E id \in 1..MaxIds :
        LET updated == update(rows, id, Updates(<<"s3">>, <<>>), now)
        IN  Serve(Database(updated.rows, nextId), immediates, "patch",
                  IF updated.event = <<>> THEN 404 ELSE 200, <<>>, <<>>, <<>>)

\* DELETE /api/v1/events/:id
DeleteEvent ==
    \E id \in 1..MaxIds :
        LET removed == delete(rows, id)
        IN  Serve(Database(removed.rows, nextId), immediates, "delete",
                  IF removed.deleted THEN 204 ELSE 404, <<>>, <<>>, <<>>)

\* age-based prune of the store
Prune ==
    \E days \in 0..1 :
        LET pruned == pruneOlderThan(rows, days, now)
        IN  Serve(Database(pruned.rows, nextId), immediates, "prune", pruned.changes,
                  <<>>, <<>>, <<>>)

\* the event loop runs the oldest queued callback
Deliver ==
    /\ immediates # <<>>
    /\ LET callback == Head(immediates)
           matching == deliverToAll(callback.event)
       IN  delivery' =
               IF matching = <<>> THEN delivery
               ELSE [event |-> <<callback.event>>, route |-> callback.route,
                     committed |-> callback.committed,
                     stored |-> get(rows, callback.event.id)]
    /\ immediates' = Tail(immediates)
    /\ UNCHANGED <<graphVars, call, rows, fts, nextId, now, response>>

\* time passes; it matters only once something is stored
Tick ==
    /\ rows # <<>>
    /\ now < MaxClock
    /\ now' = now + 1
    /\ UNCHANGED <<graphVars, call, rows, fts, nextId, immediates, delivery, response>>

\* the events API with its idempotent retries, and the maintenance of the store
NextIngest ==
    \/ PostEvent
    \/ PostBatch
    \/ PatchEvent
    \/ DeleteEvent
    \/ Prune
    \/ Tick

SpecIngest == InitIngest /\ [][NextIngest]_vars

\* the ingest paths that notify subscribers, and the delivery of notifications
NextNotify ==
    \/ AgentWebhook
    \/ GithubWebhook
    \/ PostPlainBatch
    \/ Deliver

SpecNotify == InitIngest /\ [][NextNotify]_vars

(***************************************************************************)
(* Claims about the correlator's service expansion                         *)
(***************************************************************************)
HasEdge(source, target) == HasId(edges, EdgeId(source, target))

\* joined by one dependency edge, in either direction
OneEdgeApart(s, x) == HasEdge(s, x) \/ HasEdge(x, s)

\* joined by a chain of two dependency edges, in either direction
TwoEdgeChain(s, x) ==
    \E m \in ServiceIds :
        \/ HasEdge(s, m) /\ HasEdge(m, x)
        \/ HasEdge(x, m) /\ HasEdge(m, s)

HopsOf(expanded, x) == IF HasId(expanded, x) THEN <<GetById(expanded, x).hops>> ELSE <<>>

\* C8: correlating for one affected service s, a service one dependency edge
\* away from s is expanded at hop distance 1 and a service whose shortest
\* connection to s is a chain of exactly two edges at hop distance 2; an event
\* on such a 2-hop service alone is returned with that service as overlap, the
\* reason "2-hop graph neighbor" and service-adjacency factor 0.4.
C8_HopDistance ==
    (call.op = "correlate" /\ Len(call.affected) = 1) =>
        LET s == call.affected[1]
            r == call.result
        IN  \A x \in ServiceIds \ {s} :
                /\ OneEdgeApart(s, x) => HopsOf(r.expandedServices, x) = <<1>>
                /\ (~OneEdgeApart(s, x) /\ TwoEdgeChain(s, x)) =>
                       /\ HopsOf(r.expandedServices, x) = <<2>>
                       /\ (call.change.service = x /\ call.change.additionalServices = <<>>) =>
                              /\ r.candidate
                              /\ r.serviceOverlap = <<x>>
                              /\ r.correlationReasons =
                                     <<[tag |-> "2-hop graph neighbor", service |-> x]>>
                              /\ r.serviceAdjacency = TwoHopScore

(***************************************************************************)
(* Claims about blast-radius predictions                                   *)
(***************************************************************************)
IsTarget(x) == Contains(call.targets, x)

\* C9: in every prediction no target is in directServices, downstreamServices,
\* highConfidenceDependents or possibleDependents, and no service is in both
\* directServices and downstreamServices.
C9_BucketsExcludeTargets ==
    call.op = "predict" =>
        LET r == call.result
        IN  /\ \A t \in Range(call.targets) :
                   /\ ~Contains(r.directServices, t)
                   /\ ~Contains(r.downstreamServices, t)
                   /\ ~Contains(r.highConfidenceDependents, t)
                   /\ ~Contains(r.possibleDependents, t)
            /\ Range(r.directServices) \cap Range(r.downstreamServices) = {}

\* a prediction in which a target was itself reached as a dependent and a
\* non-target service was reached both directly and further downstream
C9_Witness ==
    /\ call.op = "predict"
    /\ \E i \in 1..Len(call.result.impactPaths) :
           IsTarget(call.result.impactPaths[i].affected)
    /\ \E i, j \in 1..Len(call.result.impactPaths) :
           /\ call.result.impactPaths[i].affected = call.result.impactPaths[j].affected
           /\ ~IsTarget(call.result.impactPaths[i].affected)
           /\ call.result.impactPaths[i].hops <= 2
           /\ call.result.impactPaths[j].hops > 2

\* the edge an upstream path crosses between its i-th and (i+1)-th node
PathEdge(path, i) == GetById(edges, EdgeId(path[i + 1], path[i]))

PathEdgesExist(path) ==
    \A i \in 1..(Len(path) - 1) : HasEdge(path[i + 1], path[i])

\* the smallest edge confidence along the path
WeakestConfidence(path) ==
    CHOOSE c \in {PathEdge(path, i).confidence[1] : i \in 1..(Len(path) - 1)} :
        \A i \in 1..(Len(path) - 1) : c <= PathEdge(path, i).confidence[1]

CrossesInferred(path) ==
    \E i \in 1..(Len(path) - 1) : PathEdge(path, i).edgeSource = "inferred"

CrossesWeakInferred(path) ==
    \E i \in 1..(Len(path) - 1) :
        /\ PathEdge(path, i).edgeSource = "inferred"
        /\ PathEdge(path, i).confidence[1] < VeryHighConfidence

\* the buckets agree with a per-path rule: a path that satisfies it puts its
\* service in highConfidenceDependents, any other path in possibleDependents,
\* and nothing else is in either bucket
BucketsFollow(rule(_)) ==
    LET r == call.result
        paths == {r.impactPaths[i] : i \in 1..Len(r.impactPaths)}
        reaching(x) == {p \in paths : p.affected = x}
    IN  /\ \A p \in paths :
               ~IsTarget(p.affected) =>
                   /\ PathEdgesExist(p.path)
                   /\ IF rule(p.path)
                      THEN Contains(r.highConfidenceDependents, p.affected)
                      ELSE Contains(r.possibleDependents, p.affected)
        /\ \A x \in Range(r.highConfidenceDependents) :
               \E p \in reaching(x) : rule(p.path)
        /\ \A x \in Range(r.possibleDependents) :
               \E p \in reaching(x) : ~rule(p.path)

\* C10 as stated: high confidence iff the path's aggregated confidence is at
\* least 0.75 and it crosses no inferred edge whose own confidence is below 0.9.
C10_EdgeRule(path) ==
    WeakestConfidence(path) >= HighConfidence /\ ~CrossesWeakInferred(path)

C10_AsClaimed == call.op = "predict" => BucketsFollow(C10_EdgeRule)

\* C10 amended: high confidence iff the path's aggregated confidence (the
\* smallest edge confidence on it) is at least 0.75 and, when the path crosses
\* any inferred edge, at least 0.9; every other path puts its service in
\* possibleDependents.
C10_PathRule(path) ==
    /\ WeakestConfidence(path) >= HighConfidence
    /\ CrossesInferred(path) => WeakestConfidence(path) >= VeryHighConfidence

C10_HighConfidenceRule == call.op = "predict" => BucketsFollow(C10_PathRule)

\* a prediction with a path over an inferred edge of confidence 0.95 and a
\* measured edge of confidence 0.8: the two rules differ on it
C10_Witness ==
    /\ call.op = "predict"
    /\ \E i \in 1..Len(call.result.impactPaths) :
           LET p == call.result.impactPaths[i]
           IN  /\ ~IsTarget(p.affected)
               /\ PathEdgesExist(p.path)
               /\ C10_EdgeRule(p.path)
               /\ ~C10_PathRule(p.path)
               /\ Contains(call.result.possibleDependents, p.affected)

(***************************************************************************)
(* Claims about idempotent ingest                                          *)
(***************************************************************************)
IngestRoutes == {"events", "batch"}

\* the request passed validation
Accepted(request) ==
    request # <<>> /\ \A i \in 1..Len(request) : CreateEventSchemaOk(request[i])

\* the idempotency key of the event a result answers
KeyOf(reply, result) == reply.request[result.index + 1].idempotencyKey

RowsWithKey(key) == {i \in 1..Len(rows) : rows[i].idempotency_key = <<key>>}

SingleRoutes == {"agent", "github", "events"}

StepsOf(reply, name) == {i \in 1..Len(reply.steps) : reply.steps[i].step = name}

\* C5: on a single-event ingest the event is persisted, then its blast radius
\* is attached, then the notification is scheduled, and at the time a
\* subscriber is notified the event read from the store carries the blast
\* radius.
C5_AttachedBeforeNotified ==
    /\ (response.route \in SingleRoutes /\ response.stored # {}) =>
           \E p \in StepsOf(response, "persist"), a \in StepsOf(response, "attach"),
              n \in StepsOf(response, "schedule") : p < a /\ a < n
    /\ (delivery.route \in SingleRoutes) =>
           /\ delivery.stored # <<>>
           /\ delivery.stored[1].blastRadius # <<>>

\* C6: in a batch ingest every blast-radius attachment comes after the commit
\* of the transaction that persisted the events, and a subscriber is notified
\* of an event only when that transaction has committed.
C6_AfterCommit ==
    /\ response.route = "batch" =>
           \A a \in StepsOf(response, "attach") :
               \E c \in StepsOf(response, "commit") : c < a
    /\ delivery.route = "batch" => delivery.committed

\* C7: a batch with an event that fails validation is rejected as a whole:
\* none of its events is stored, not even the valid ones before the invalid
\* one, and no notification is queued for any of them.
C7_InvalidBatchRejected ==
    (response.route = "batch" /\ ~Accepted(response.request)) =>
        /\ response.status = 400
        /\ response.results = <<>>
        /\ response.stored = {}
        /\ response.queued = 0

\* a batch whose first event is valid and whose second is not was refused
C7_Witness ==
    /\ response.route = "batch"
    /\ Len(response.request) = 2
    /\ CreateEventSchemaOk(response.request[1])
    /\ ~CreateEventSchemaOk(response.request[2])
    /\ response.status = 400

(***************************************************************************)
(* Specification of the risk verdict.  The graph is a loaded config: a     *)
(* service "core", some services that call it, and some services that call *)
(* the first of those.  The analyzer is asked about "core".                *)
(***************************************************************************)
MaxDirect == 4
MaxDownstream == 11

\* the id `${prefix}-${i}` of a configured service
ServiceName(prefix, i) == <<prefix, i>>

Core == ServiceName("core", 0)

\* buildGraph: graph.addService for each configured service
RECURSIVE addServices(_, _, _)
addServices(G, services, i) ==
    IF i > Len(services) THEN G
    ELSE Once({addServices(next, services, i + 1) :
               next \in {addService(G, [id |-> services[i], team |-> Undefined,
                                        owner |-> Undefined, metaSource |-> "config"])}})

\* buildGraph: graph.addDependency for each configured dependency
RECURSIVE addDependencies(_, _, _)
addDependencies(G, dependencies, i) ==
    IF i > Len(dependencies) THEN G
    ELSE Once({addDependencies(next, dependencies, i + 1) :
               next \in {addDependency(G, [source |-> dependencies[i].source,
                                           target |-> dependencies[i].target,
                                           criticality |-> dependencies[i].criticality,
                                           edgeSource |-> Undefined,
                                           confidence |-> <<>>,
                                           metaSource |-> "config"])}})

buildGraph(config) ==
    addDependencies(addServices(EmptyGraph, config.services, 1), config.dependencies, 1)

\* a config with d callers of core and m callers of the first caller
FleetConfig(d, m, criticality) ==
    [services |-> <<Core>> \o [i \in 1..d |-> ServiceName("svc", i)]
                           \o [j \in 1..m |-> ServiceName("edge", j)],
     dependencies |->
         [i \in 1..d |-> [source |-> ServiceName("svc", i), target |-> Core,
                          criticality |-> criticality]]
         \o [j \in 1..m |-> [source |-> ServiceName("edge", j),
                             target |-> ServiceName("svc", 1),
                             criticality |-> criticality]]]

InitRisk ==
    /\ \E d \in 0..MaxDirect, m \in 0..MaxDownstream,
          criticality \in {"critical", "degraded", "optional"} :
           /\ m > 0 => d > 0
           /\ \E G \in {buildGraph(FleetConfig(d, m, criticality))} :
                  /\ nodes = G.nodes
                  /\ edges = G.edges
                  /\ outgoing = G.outgoing
                  /\ incoming = G.incoming
    /\ call = [op |-> "none"]
    /\ InitStore

\* POST /blast-radius for core
PredictCore ==
    \E changeType \in {Undefined, "db_migration", "deployment"} :
        /\ call.op = "none"
        /\ \E result \in {predict(CurrentGraph, <<Core>>, changeType, DefaultMaxDepth)} :
               call' = [op |-> "predict", targets |-> <<Core>>,
                        changeType |-> changeType, result |-> result]
        /\ UNCHANGED <<graphVars, storeVars>>

NextRisk == PredictCore \/ Respond

SpecRisk == InitRisk /\ [][NextRisk]_vars

MaxDepth == 3

Directions == {"upstream", "downstream"}

CriticalityKinds ==
    {EdgeAttrs(criticality, Undefined, <<>>, "config") :
         criticality \in {"critical", "degraded", "optional"}}

AddAnyDependency == AddDependency(CriticalityKinds)

\* getUpstreamImpact(serviceId, maxDepth) or getDownstreamImpact(serviceId, maxDepth)
Traverse ==
    \E dir \in Directions, serviceId \in ServiceIds, maxDepth \in 0..MaxDepth :
        /\ call.op = "none"
        /\ \E result \in {IF dir = "upstream"
                          THEN getUpstreamImpact(CurrentGraph, serviceId, maxDepth)
                          ELSE getDownstreamImpact(CurrentGraph, serviceId, maxDepth)} :
               call' = [op |-> "traverse", dir |-> dir, serviceId |-> serviceId,
                        maxDepth |-> maxDepth, result |-> result]
        /\ UNCHANGED <<graphVars, storeVars>>

NextTraverse == AddAnyDependency \/ Traverse \/ Respond

SpecTraverse == InitGraph /\ [][NextTraverse]_vars

(***************************************************************************)
(* Claims: impact paths                                                    *)
(***************************************************************************)
\* the id of the edge that joins path[i] and path[i + 1] in direction dir
StepEdge(dir, path, i) ==
    IF dir = "upstream" THEN EdgeId(path[i + 1], path[i])
    ELSE EdgeId(path[i], path[i + 1])

\* the impact paths of the traversal just made
Returned == IF call.op = "traverse" THEN Range(call.result) ELSE {}

\* the least critical of the edges the path goes over
WeakestCriticality(dir, path) ==
    LET orders == {CriticalityOrder(GetById(edges, StepEdge(dir, path, i)).criticality) :
                       i \in 1..(Len(path) - 1)}
        weakest == CHOOSE o \in orders : \A other \in orders : other <= o
    IN  CHOOSE c \in {"critical", "degraded", "optional"} : CriticalityOrder(c) = weakest

\* C12: the aggregated criticality of every impact path is the weakest (in
\* the order critical < degraded < optional) criticality among the edges on
\* its path.
C12_WeakestLink ==
    \A p \in Returned :
        /\ Len(p.path) >= 2
        /\ \A i \in 1..(Len(p.path) - 1) : HasId(edges, StepEdge(call.dir, p.path, i))
        /\ p.criticality = WeakestCriticality(call.dir, p.path)

\* upstream from A over A <-(critical)- B <-(optional)- C: the path to C is optional
C12_Witness ==
    /\ call.op = "traverse"
    /\ call.dir = "upstream"
    /\ call.serviceId = "A"
    /\ HasId(edges, EdgeId("B", "A")) /\ GetById(edges, EdgeId("B", "A")).criticality = "critical"
    /\ HasId(edges, EdgeId("C", "B")) /\ GetById(edges, EdgeId("C", "B")).criticality = "optional"
    /\ \E p \in Returned : p.path = <<"A", "B", "C">> /\ p.criticality = "optional"

\* C13: for every impact path returned by either traversal, hops is the
\* length of path, path starts at the start service and ends at the affected
\* service, and every consecutive pair of nodes is joined by an edge of the
\* graph in the traversed direction.
C13_PathShape ==
    \A p \in Returned :
        /\ p.hops = Len(p.path)
        /\ p.source = call.serviceId
        /\ p.path[1] = call.serviceId
        /\ p.path[Len(p.path)] = p.affected
        /\ \A i \in 1..(Len(p.path) - 1) :
               /\ HasId(edges, StepEdge(call.dir, p.path, i))
               /\ LET edge == GetById(edges, StepEdge(call.dir, p.path, i))
                  IN  IF call.dir = "upstream"
                      THEN edge.target = p.path[i] /\ edge.source = p.path[i + 1]
                      ELSE edge.source = p.path[i] /\ edge.target = p.path[i + 1]

\* a downstream traversal over A -> B -> C that reports C at three hops
C13_Witness ==
    /\ call.op = "traverse"
    /\ call.dir = "downstream"
    /\ call.serviceId = "A"
    /\ ~HasId(edges, EdgeId("B", "A"))
    /\ \E p \in Returned : p.path = <<"A", "B", "C">> /\ p.hops = 3 /\ p.affected = "C"

\* C14: no impact path returned by a traversal revisits a node: each node id
\* occurs at most once in path, and in particular the start service is never
\* reported as affected, also on graphs with cycles or self-loops.
C14_NoRevisit ==
    \A p \in Returned :
        /\ \A i, j \in 1..Len(p.path) : p.path[i] = p.path[j] => i = j
        /\ p.affected # call.serviceId

(***************************************************************************)
(* Specification of the traversals step by step.  A walk in progress is    *)
(* held in call: the visited set, the paths found so far, and the stack of *)
(* traverse calls (depth-first impact traversals) or the queue (findPath). *)
(* Nothing else runs while a walk is in progress.                          *)
(***************************************************************************)
DefaultDepth == 5

\* variant of the visited test that never finds the node
visitedHas_Never(visited, node) == FALSE

\* visited.has(node)
visitedHas(visited, node) == Contains(visited, node)

\* one call of the inner traverse function, before its first statement
Frame(current, path, depth, criticality, confidence, edgeSources) ==
    [current |-> current, path |-> path, depth |-> depth, criticality |-> criticality,
     confidence |-> confidence, edgeSources |-> edgeSources,
     entered |-> FALSE, edgeIds |-> <<>>, i |-> 1]

Walk(kind, serviceId, to, maxDepth, stack, queue) ==
    [op |-> "walking", kind |-> kind, serviceId |-> serviceId, to |-> to,
     maxDepth |-> maxDepth, visited |-> <<>>, paths |-> <<>>, stack |-> stack,
     queue |-> queue, steps |-> 0]

Walked(w, result) ==
    [op |-> "walked", kind |-> w.kind, serviceId |-> w.serviceId, to |-> w.to,
     maxDepth |-> w.maxDepth, result |-> result, steps |-> w.steps + 1]

\* traverse returns to its caller; the outermost return sorts the paths
popFrame(w) ==
    IF Len(w.stack) = 1
    THEN Walked(w, SortByHops(w.paths, 2, Len(w.paths) + 1))
    ELSE [w EXCEPT !.stack = SubSeq(@, 1, Len(@) - 1), !.steps = @ + 1]

\* the next statement of the innermost traverse call
traverseStep(G, w) ==
    LET n == Len(w.stack)
        top == w.stack[n]
    IN  IF ~top.entered
        THEN IF depthExceeded(top.depth, w.maxDepth) \/ visitedHas(w.visited, top.current)
             THEN popFrame(w)
             ELSE [w EXCEPT !.visited = SetAdd(@, top.current),
                            !.stack[n].entered = TRUE,
                            !.stack[n].edgeIds =
                                IF w.kind = "upstream" THEN AdjOf(G.incoming, top.current)
                                ELSE AdjOf(G.outgoing, top.current),
                            !.steps = @ + 1]
        ELSE IF top.i > Len(top.edgeIds)
        THEN popFrame(w)
        ELSE IF ~HasId(G.edges, top.edgeIds[top.i])
        THEN [w EXCEPT !.stack[n].i = @ + 1, !.steps = @ + 1]
        ELSE LET edge == GetById(G.edges, top.edgeIds[top.i])
                 next == IF w.kind = "upstream" THEN edge.source ELSE edge.target
                 newPath == Append(top.path, next)
                 newCriticality == mergeCriticality(top.criticality, edge.criticality)
                 newConfidence ==
                     Min(top.confidence, normalizeConfidence(edge.confidence))
                 newEdgeSources ==
                     SetAdd(top.edgeSources,
                            IF edge.edgeSource # Undefined THEN edge.edgeSource
                            ELSE inferEdgeSource(edge.metaSource))
             IN  [w EXCEPT
                      !.paths = Append(@, [source |-> w.serviceId,
                                           affected |-> next,
                                           path |-> newPath,
                                           hops |-> Len(newPath),
                                           criticality |-> newCriticality,
                                           confidence |-> newConfidence,
                                           edgeSources |-> newEdgeSources]),
                      !.stack = Append([@ EXCEPT ![n].i = @ + 1],
                                       Frame(next, newPath, top.depth + 1, newCriticality,
                                             newConfidence, newEdgeSources)),
                      !.steps = @ + 1]

\* findPath: the for loop over the outgoing edges of a dequeued node; st holds
\* the queue and, once the target is met, the path returned
RECURSIVE scanEdges(_, _, _, _, _, _, _)
scanEdges(G, st, edgeIds, i, path, to, visited) ==
    IF i > Len(edgeIds) \/ st.found # <<>> THEN st
    ELSE IF ~HasId(G.edges, edgeIds[i])
    THEN scanEdges(G, st, edgeIds, i + 1, path, to, visited)
    ELSE Once({scanEdges(G, next, edgeIds, i + 1, path, to, visited) :
               next \in {LET edge == GetById(G.edges, edgeIds[i])
                             newPath == Append(path, edge.target)
                         IN  IF edge.target = to
                             THEN [st EXCEPT !.found = <<newPath>>]
                             ELSE IF ~visitedHas(visited, edge.target)
                             THEN [st EXCEPT !.queue =
                                       Append(@, [node |-> edge.target, path |-> newPath])]
                             ELSE st}})

\* findPath: one turn of the while loop
findPathStep(G, w) ==
    IF w.queue = <<>> THEN Walked(w, <<>>)
    ELSE LET head == Head(w.queue)
             rest == Tail(w.queue)
         IN  IF visitedHas(w.visited, head.node)
             THEN [w EXCEPT !.queue = rest, !.steps = @ + 1]
             ELSE Once({IF scanned.found # <<>>
                        THEN Walked(w, scanned.found)
                        ELSE [w EXCEPT !.visited = SetAdd(@, head.node),
                                       !.queue = scanned.queue,
                                       !.steps = @ + 1] :
                        scanned \in {scanEdges(G, [queue |-> rest, found |-> <<>>],
                                               AdjOf(G.outgoing, head.node), 1, head.path,
                                               w.to, SetAdd(w.visited, head.node))}})

\* getUpstreamImpact / getDownstreamImpact is called
StartTraverse ==
    \E dir \in Directions, serviceId \in ServiceIds,
       maxDepth \in (0..MaxDepth) \cup {DefaultDepth} :
        /\ call.op = "none"
        /\ call' = Walk(dir, serviceId, serviceId, maxDepth,
                        <<Frame(serviceId, <<serviceId>>, 0, "critical", 100, <<>>)>>,
                        <<>>)
        /\ UNCHANGED <<graphVars, storeVars>>

\* findPath(from, to) is called; the two early returns answer at once
StartFindPath ==
    \E from \in ServiceIds, to \in ServiceIds :
        /\ call.op = "none"
        /\ call' = LET w == Walk("findPath", from, to, 0, <<>>,
                                 <<[node |-> from, path |-> <<from>>]>>)
                   IN  IF from = to THEN Walked(w, <<<<from>>>>)
                       ELSE IF ~HasId(nodes, from) \/ ~HasId(nodes, to)
                       THEN Walked(w, <<>>)
                       ELSE w
        /\ UNCHANGED <<graphVars, storeVars>>

\* the walk in progress takes its next step
WalkStep ==
    /\ call.op = "walking"
    /\ \E next \in {IF call.kind = "findPath" THEN findPathStep(CurrentGraph, call)
                    ELSE traverseStep(CurrentGraph, call)} :
           call' = next
    /\ UNCHANGED <<graphVars, storeVars>>

\* the caller has the result
Return ==
    /\ call.op = "walked"
    /\ call' = [op |-> "none"]
    /\ UNCHANGED <<graphVars, storeVars>>

NextWalk == AddPlainDependency \/ StartTraverse \/ StartFindPath \/ WalkStep \/ Return

\* a call that has started runs on: the traversals are synchronous
SpecWalk == InitGraph /\ [][NextWalk]_vars /\ WF_vars(WalkStep)

(***************************************************************************)
(* Claims: termination                                                     *)
(***************************************************************************)
\* every node is entered once and every edge is gone over once
WalkBound == 2 * Len(edges) + Len(nodes) + 2

\* C15: getUpstreamImpact, getDownstreamImpact and findPath terminate on every
\* finite graph, cycles and self-loops included, for every start node and
\* every maxDepth: a walk never takes more steps than the size of the graph
\* allows, and a walk that has started ends.
C15_Terminates ==
    /\ [](call.op \in {"walking", "walked"} => call.steps <= WalkBound)
    /\ (call.op = "walking") ~> (call.op = "walked")

\* a traversal with the default depth that has ended on a two-node cycle
C15_Witness ==
    /\ call.op = "walked"
    /\ call.kind = "upstream"
    /\ call.maxDepth = DefaultDepth
    /\ call.serviceId = "A"
    /\ HasId(edges, EdgeId("A", "B"))
    /\ HasId(edges, EdgeId("B", "A"))

\* the walk step by step returns what the traversal returns
WalkAgrees ==
    (call.op = "walked" /\ call.kind \in Directions) =>
        call.result = impactPaths(CurrentGraph, call.kind, call.serviceId, call.maxDepth)

(***************************************************************************)
(* Graph maintenance: removal, merge, clear.  call keeps the last          *)
(* operation with the graph it was applied to, until the reply is sent.    *)
(***************************************************************************)
\* clear(): the four maps are emptied
clear(G) == EmptyGraph

\* base.getAllEdges().some(e => e.source === edge.source && e.target === edge.target)
edgeExists(G, edge) ==
    \E i \in 1..Len(G.edges) :
        G.edges[i].source = edge.source /\ G.edges[i].target = edge.target

\* variant that adds every incoming node, whether base has it or not
mergeNode_Always(base, node, source) ==
    addService(base, [node EXCEPT !.metaSource = source])

\* mergeGraph: one turn of the loop over incoming.getAllServices()
mergeNode(base, node, source) ==
    IF HasId(base.nodes, node.id) THEN base
    ELSE addService(base, [node EXCEPT !.metaSource = source])

RECURSIVE mergeNodes(_, _, _, _)
mergeNodes(base, incomingNodes, i, source) ==
    IF i > Len(incomingNodes) THEN base
    ELSE Once({mergeNodes(next, incomingNodes, i + 1, source) :
               next \in {mergeNode(base, incomingNodes[i], source)}})

\* variant that adds every incoming edge, whether base has it or not
mergeEdge_Always(base, edge, source) ==
    addDependency(base, [source |-> edge.source, target |-> edge.target,
                         criticality |-> edge.criticality, edgeSource |-> Undefined,
                         confidence |-> <<>>, metaSource |-> source])

\* mergeGraph: one turn of the loop over incoming.getAllEdges(); edgeSource and
\* confidence are not passed on
mergeEdge(base, edge, source) ==
    IF edgeExists(base, edge) THEN base
    ELSE addDependency(base, [source |-> edge.source, target |-> edge.target,
                              criticality |-> edge.criticality, edgeSource |-> Undefined,
                              confidence |-> <<>>, metaSource |-> source])

RECURSIVE mergeEdges(_, _, _, _)
mergeEdges(base, incomingEdges, i, source) ==
    IF i > Len(incomingEdges) THEN base
    ELSE Once({mergeEdges(next, incomingEdges, i + 1, source) :
               next \in {mergeEdge(base, incomingEdges[i], source)}})

mergeGraph(base, incomingGraph, source) ==
    Once({mergeEdges(withNodes, incomingGraph.edges, 1, source) :
          withNodes \in {mergeNodes(base, incomingGraph.nodes, 1, source)}})

\* a config dependency
Dependency(source, target, criticality) ==
    [source |-> source, target |-> target, criticality |-> criticality]

\* bodies of import requests, in config format
ImportConfigs ==
    {[services |-> <<"A", "B">>,
      dependencies |-> <<Dependency("A", "B", "optional")>>],
     [services |-> <<"C">>,
      dependencies |-> <<Dependency("B", "C", "degraded")>>]}

\* the provenance tag of POST /api/v1/graph/import
ImportTags == {"import"}

\* graph.addService for a service of the config
AddService ==
    \E id \in ServiceIds :
        /\ call.op = "none"
        /\ call' = [op |-> "addService", id |-> id, before |-> CurrentGraph]
        /\ SetGraph(addService(CurrentGraph, ConfigNode(id)))
        /\ UNCHANGED storeVars

RemoveService ==
    \E id \in ServiceIds :
        /\ call.op = "none"
        /\ call' = [op |-> "removeService", id |-> id, before |-> CurrentGraph,
                    removed |-> HasId(nodes, id)]
        /\ SetGraph(removeService(CurrentGraph, id))
        /\ UNCHANGED storeVars

\* POST /api/v1/graph/import, or the same graph merged into itself
Merge ==
    \E tag \in ImportTags,
       incomingGraph \in {buildGraph(config) : config \in ImportConfigs} \cup {CurrentGraph} :
        /\ call.op = "none"
        /\ call' = [op |-> "merge", incoming |-> incomingGraph, tag |-> tag,
                    before |-> CurrentGraph]
        /\ SetGraph(mergeGraph(CurrentGraph, incomingGraph, tag))
        /\ UNCHANGED storeVars

\* the same import is sent again
MergeAgain ==
    /\ call.op = "merge"
    /\ call' = [op |-> "mergeAgain", incoming |-> call.incoming, tag |-> call.tag,
                before |-> CurrentGraph]
    /\ SetGraph(mergeGraph(CurrentGraph, call.incoming, call.tag))
    /\ UNCHANGED storeVars

Clear ==
    /\ call.op = "none"
    /\ nodes # <<>>
    /\ call' = [op |-> "clear", before |-> CurrentGraph]
    /\ SetGraph(clear(CurrentGraph))
    /\ UNCHANGED storeVars

NextMaintain ==
    \/ AddService
    \/ AddPlainDependency
    \/ RemoveService
    \/ Merge
    \/ MergeAgain
    \/ Clear
    \/ Respond

SpecMaintain == InitGraph /\ [][NextMaintain]_vars

(***************************************************************************)
(* Claims: graph maintenance                                               *)
(***************************************************************************)
\* C16: after any sequence of addService, addDependency, removeService, merge
\* and clear, an edge id is in outgoing(v) exactly when the edge set holds
\* that edge with source v, and in incoming(v) exactly when the edge set holds
\* that edge with target v.
C16_AdjacencyAgrees ==
    /\ \A v \in DOMAIN outgoing : \A id \in Range(outgoing[v]) :
           HasId(edges, id) /\ GetById(edges, id).source = v
    /\ \A v \in DOMAIN incoming : \A id \in Range(incoming[v]) :
           HasId(edges, id) /\ GetById(edges, id).target = v
    /\ \A i \in 1..Len(edges) :
           /\ edges[i].source \in DOMAIN outgoing
           /\ Contains(outgoing[edges[i].source], edges[i].id)
           /\ edges[i].target \in DOMAIN incoming
           /\ Contains(incoming[edges[i].target], edges[i].id)

\* a service with an edge on either side has been removed and an edge is left
C16_Witness ==
    /\ call.op = "removeService"
    /\ call.removed
    /\ \E i, j \in 1..Len(call.before.edges) :
           /\ call.before.edges[i].source = call.id
           /\ call.before.edges[j].target = call.id
    /\ edges # <<>>

\* an edge that starts or ends at the service
Incident(edge, id) == edge.source = id \/ edge.target = id

\* C17: after removeService(id) on an existing node, the node is gone and no
\* edge with source or target id remains in the edge set or in any other
\* node's outgoing or incoming adjacency set, while every node and edge not
\* incident to id is unchanged.
C17_RemoveServiceFrame ==
    (call.op = "removeService" /\ call.removed) =>
        /\ ~HasId(nodes, call.id)
        /\ \A i \in 1..Len(edges) : ~Incident(edges[i], call.id)
        /\ \A v \in DOMAIN outgoing : \A e \in Range(outgoing[v]) :
               e[1] # call.id /\ e[2] # call.id
        /\ \A v \in DOMAIN incoming : \A e \in Range(incoming[v]) :
               e[1] # call.id /\ e[2] # call.id
        /\ nodes = SelectSeq(call.before.nodes, LAMBDA n : n.id # call.id)
        /\ edges = SelectSeq(call.before.edges, LAMBDA e : ~Incident(e, call.id))

\* B had an edge on either side and the graph held an edge that does not touch B
C17_Witness ==
    /\ call.op = "removeService"
    /\ call.removed
    /\ call.id = "B"
    /\ HasId(call.before.edges, EdgeId("A", "B"))
    /\ HasId(call.before.edges, EdgeId("B", "C"))
    /\ HasId(call.before.edges, EdgeId("C", "A"))
    /\ HasId(edges, EdgeId("C", "A"))

\* what G held is still there, attribute for attribute
Kept(G) ==
    /\ \A i \in 1..Len(G.nodes) :
           HasId(nodes, G.nodes[i].id) /\ GetById(nodes, G.nodes[i].id) = G.nodes[i]
    /\ \A i \in 1..Len(G.edges) :
           HasId(edges, G.edges[i].id) /\ GetById(edges, G.edges[i].id) = G.edges[i]

\* C18: merge(base, incoming, tag) never overwrites or removes anything base
\* already had: every node and every (source, target) edge of base is still
\* present afterwards with all its attributes unchanged, whatever incoming
\* contains and however often imports are repeated.
C18_BasePrecedence ==
    call.op \in {"merge", "mergeAgain"} => Kept(call.before)

\* base has the config edge A -> B and node A, the import brings both with
\* other attributes, and C, which is new
C18_Witness ==
    /\ call.op = "merge"
    /\ HasId(call.before.edges, EdgeId("A", "B"))
    /\ GetById(call.before.edges, EdgeId("A", "B")).criticality = "critical"
    /\ HasId(call.incoming.edges, EdgeId("A", "B"))
    /\ GetById(call.incoming.edges, EdgeId("A", "B")).criticality = "optional"
    /\ HasId(call.before.nodes, "A")
    /\ ~HasId(call.before.nodes, "B")
    /\ HasId(nodes, "B")
    /\ GetById(nodes, "B").metaSource = "import"

\* C19: merge is idempotent: merge(G, G, tag) leaves G unchanged, and applying
\* merge(base, H, tag) a second time with the same H leaves base exactly as it
\* was after the first application.
C19_MergeIdempotent ==
    /\ (call.op = "merge" /\ call.incoming = call.before) => CurrentGraph = call.before
    /\ call.op = "mergeAgain" => CurrentGraph = call.before

\* the import of C and B -> C is repeated on a graph that had neither before
C19_Witness ==
    /\ call.op = "mergeAgain"
    /\ HasId(call.incoming.edges, EdgeId("B", "C"))
    /\ HasId(edges, EdgeId("B", "C"))
    /\ GetById(edges, EdgeId("B", "C")).metaSource = "import"
    /\ HasId(nodes, "C")
    /\ GetById(nodes, "C").metaSource = "import"

(***************************************************************************)
(* Requests served while an import is in flight.  Every handler runs on    *)
(* the one JavaScript thread and runs to completion up to its next await;  *)
(* mergeGraph and the traversals contain no await, so each is part of one  *)
(* step.  The Backstage import awaits the catalog fetch before it touches  *)
(* the graph: call keeps the handler's position (awaiting, then imported   *)
(* with the graphs it merged), response the last reply sent.               *)
(***************************************************************************)
BackstageTag == "backstage"

\* depths a traversing request may ask for
ServeDepth == 2

\* variant whose continuation yields after the node loop of mergeGraph
backstageContinuation_NodesOnly(G, config) ==
    mergeNodes(G, buildGraph(config).nodes, 1, BackstageTag)

\* after the await: loadGraphFromJson(config); mergeGraph(serviceGraph, incoming, 'backstage')
backstageContinuation(G, config) ==
    mergeGraph(G, buildGraph(config), BackstageTag)

\* POST /api/v1/graph/import/backstage up to `await importFromBackstage(...)`
BackstageRequest ==
    /\ call.op = "none"
    /\ call' = [op |-> "awaiting", before |-> CurrentGraph]
    /\ UNCHANGED <<graphVars, storeVars>>

\* the fetch resolved with a catalog: the rest of the handler, in one step
BackstageResume ==
    \E config \in ImportConfigs :
        /\ call.op = "awaiting"
        /\ \E merged \in {backstageContinuation(CurrentGraph, config)} :
               /\ SetGraph(merged)
               /\ response' = Reply("backstage", 200, config,
                                    <<Len(merged.nodes), Len(merged.edges)>>, {}, 0, <<>>)
        /\ call' = [op |-> "imported", incoming |-> buildGraph(config),
                    tag |-> BackstageTag, before |-> CurrentGraph]
        /\ UNCHANGED <<rows, fts, nextId, now, immediates, delivery>>

\* the fetch rejected with a BackstageApiError: 502, the graph is not touched
BackstageFail ==
    /\ call.op = "awaiting"
    /\ call' = [op |-> "none"]
    /\ response' = Reply("backstage", 502, <<>>, <<>>, {}, 0, <<>>)
    /\ UNCHANGED <<graphVars, rows, fts, nextId, now, immediates, delivery>>

\* POST /api/v1/graph/import: parse, build and merge without an await
ImportRequest ==
    \E config \in ImportConfigs, tag \in ImportTags :
        /\ call.op = "none"
        /\ \E merged \in {mergeGraph(CurrentGraph, buildGraph(config), tag)} :
               /\ SetGraph(merged)
               /\ response' = Reply("import", 200, config,
                                    <<Len(merged.nodes), Len(merged.edges)>>, {}, 0, <<>>)
        /\ call' = [op |-> "imported", incoming |-> buildGraph(config),
                    tag |-> tag, before |-> CurrentGraph]
        /\ UNCHANGED <<rows, fts, nextId, now, immediates, delivery>>

\* a request that traverses the graph, served whatever the import handler's position
TraverseRequest ==
    \E dir \in Directions, serviceId \in ServiceIds, maxDepth \in 1..ServeDepth :
        /\ \E result \in {IF dir = "upstream"
                          THEN getUpstreamImpact(CurrentGraph, serviceId, maxDepth)
                          ELSE getDownstreamImpact(CurrentGraph, serviceId, maxDepth)} :
               response' = Reply("traverse", 200, <<dir, serviceId, maxDepth>>,
                                 result, {}, 0, <<>>)
        /\ UNCHANGED <<graphVars, call, rows, fts, nextId, now, immediates, delivery>>

\* a dependency of the startup config, loaded before the server listens
LoadDependency ==
    /\ response.route = "none"
    /\ AddPlainDependency

NextServe ==
    \/ LoadDependency
    \/ BackstageRequest
    \/ BackstageResume
    \/ BackstageFail
    \/ ImportRequest
    \/ TraverseRequest
    \/ Respond

SpecServe == InitGraph /\ [][NextServe]_vars

\* the graph G holds all of `before` and all of the incoming graph, and nothing else
WholeMerge(before, incomingGraph, G) ==
    /\ Range(before.nodes) \subseteq Range(G.nodes)
    /\ Range(before.edges) \subseteq Range(G.edges)
    /\ {n.id : n \in Range(G.nodes)} =
           {n.id : n \in Range(before.nodes) \cup Range(incomingGraph.nodes)}
    /\ {<<e.source, e.target>> : e \in Range(G.edges)} =
           {<<e.source, e.target>> : e \in Range(before.edges) \cup Range(incomingGraph.edges)}

\* the last reply is the result for the graph as it stands, which is the graph before
\* the import in flight or the one after the whole import
SeesWholeGraph ==
    /\ response.results = impactPaths(CurrentGraph, response.request[1],
                                      response.request[2], response.request[3])
    /\ call.op = "awaiting" => CurrentGraph = call.before
    /\ call.op = "imported" => WholeMerge(call.before, call.incoming, CurrentGraph)

\* C20: every handler that changes the graph replies in the step that changes it, so a
\* traversal's reply is the last one only while the graph is the one it traversed.
\* A traversal served while an import request is in flight, or after it, returns
\* the result for the graph before the import or for the graph after the whole merge,
\* never for a graph that holds only part of the merge
C20_NeverPartial == response.route = "traverse" => SeesWholeGraph

\* a traversal answered after a Backstage import that added an edge and a node,
\* whose result runs over the imported edge
C20_Witness ==
    /\ call.op = "imported"
    /\ call.tag = BackstageTag
    /\ ~HasId(call.before.nodes, "C") \/ ~HasId(call.before.edges, EdgeId("B", "C"))
    /\ response.route = "traverse"
    /\ response.request = <<"downstream", "B", ServeDepth>>
    /\ \E i \in 1..Len(response.results) : response.results[i].affected = "C"

(***************************************************************************)
(* findPath as one call, on graphs whose services come and go.  The result *)
(* is <<>> for null and <<path>> for a path.                               *)
(***************************************************************************)
\* the while loop of findPath, run to its return
RECURSIVE findPathLoop(_, _)
findPathLoop(G, w) ==
    IF w.op = "walked" THEN w.result
    ELSE Once({findPathLoop(G, next) : next \in {findPathStep(G, w)}})

findPath(G, from, to) ==
    IF from = to THEN <<<<from>>>>
    ELSE IF ~HasId(G.nodes, from) \/ ~HasId(G.nodes, to) THEN <<>>
    ELSE findPathLoop(G, Walk("findPath", from, to, 0, <<>>,
                              <<[node |-> from, path |-> <<from>>]>>))

\* findPath(from, to) is called
FindPath ==
    \E from \in ServiceIds, to \in ServiceIds :
        /\ call.op = "none"
        /\ \E result \in {findPath(CurrentGraph, from, to)} :
               call' = [op |-> "findPath", from |-> from, to |-> to, result |-> result]
        /\ UNCHANGED <<graphVars, storeVars>>

NextPath == AddPlainDependency \/ RemoveService \/ FindPath \/ Respond

SpecPath == InitGraph /\ [][NextPath]_vars

\* the ids reached from `from` over at most k outgoing edges
RECURSIVE ReachedWithin(_, _)
ReachedWithin(from, k) ==
    IF k = 0 THEN {from}
    ELSE LET near == ReachedWithin(from, k - 1)
         IN  near \cup {e.target : e \in {x \in Range(edges) : x.source \in near}}

\* no shortest path has more edges than there are edges
Reachable(from, to) == to \in ReachedWithin(from, Len(edges))

\* the fewest edges on a path from `from` to `to`
Distance(from, to) ==
    CHOOSE k \in 0..Len(edges) :
        /\ to \in ReachedWithin(from, k)
        /\ \A j \in 0..(k - 1) : to \notin ReachedWithin(from, j)

\* path starts at from, ends at to, and goes over outgoing edges only
IsPath(path, from, to) ==
    /\ Len(path) >= 1
    /\ path[1] = from
    /\ path[Len(path)] = to
    /\ \A i \in 1..(Len(path) - 1) : HasId(edges, EdgeId(path[i], path[i + 1]))

\* C21: findPath(from, to) returns a path from `from` to `to` over outgoing edges
\* that has the fewest edges of all such paths, and returns null exactly when
\* `to` cannot be reached from `from` over outgoing edges
C21_ShortestPath ==
    call.op = "findPath" =>
        /\ (call.result = <<>>) <=> ~Reachable(call.from, call.to)
        /\ call.result # <<>> =>
               /\ IsPath(call.result[1], call.from, call.to)
               /\ Len(call.result[1]) - 1 = Distance(call.from, call.to)

\* what findPath does guarantee: a returned path is a shortest one, and null is
\* returned exactly when `to` is unreachable or an end is not a service of the graph
C21_AmongServices ==
    call.op = "findPath" =>
        /\ (call.result = <<>>) <=>
               \/ ~Reachable(call.from, call.to)
               \/ /\ call.from # call.to
                  /\ ~HasId(nodes, call.from) \/ ~HasId(nodes, call.to)
        /\ call.result # <<>> =>
               /\ IsPath(call.result[1], call.from, call.to)
               /\ Len(call.result[1]) - 1 = Distance(call.from, call.to)

(***************************************************************************)
(* ChangeEventStore called directly: insert, update, delete, prune, query, *)
(* search and the velocity trend.  Splitting, prefixes and JSON encoding   *)
(* are computed on the characters of a string, which Chars lists for every *)
(* string of these requests (lower case only: LIKE and the FTS5 tokenizer  *)
(* fold case).  The clock counts minutes.                                  *)
(***************************************************************************)
MaxPeriods == 2

QueryLimit == 50

SearchLimit == 20

Api == "ab"

Db == "b"

Quoted == "a\"b"

\* the characters of a string
Chars(str) ==
    CASE str = "" -> <<>>
      [] str = "a" -> <<"a">>
      [] str = "b" -> <<"b">>
      [] str = "aa" -> <<"a", "a">>
      [] str = "ab" -> <<"a", "b">>
      [] str = "bb" -> <<"b", "b">>
      [] str = "abb" -> <<"a", "b", "b">>
      [] str = "ba a" -> <<"b", "a", " ", "a">>
      [] str = "ba bb" -> <<"b", "a", " ", "b", "b">>
      [] str = "a\"b" -> <<"a", "\"", "b">>

\* what insert is given: any key may be absent (Undefined) or empty
StoreEvent(service, summary, changeType, additionalServices) ==
    [EventData(service, summary, Undefined, <<>>) EXCEPT
         !.changeType = changeType, !.additionalServices = additionalServices]

StoreEvents ==
    {StoreEvent(Api, "ba a", "deployment", <<>>),
     StoreEvent(Db, "abb", "config_change", <<Api>>),
     StoreEvent(Db, "bb", "deployment", <<Quoted>>),
     StoreEvent("", "ab", "deployment", <<>>),
     StoreEvent(Api, Undefined, "deployment", <<>>),
     StoreEvent(Api, "ab", "", <<>>)}

\* the pieces of text between separators, empty pieces left out
RECURSIVE splitWords(_, _, _, _)
splitWords(text, separators, word, out) ==
    IF text = <<>> THEN (IF word = <<>> THEN out ELSE Append(out, word))
    ELSE IF Head(text) \in separators
    THEN splitWords(Tail(text), separators, <<>>,
                    IF word = <<>> THEN out ELSE Append(out, word))
    ELSE splitWords(Tail(text), separators, Append(word, Head(text)), out)

\* the FTS5 default tokenizer: maximal runs of letters and digits
tokenize(text) == splitWords(Chars(text), {" ", "\""}, <<>>, <<>>)

\* query.split(/\s+/).filter(t => t.length > 1)
ftsTerms(q) == SelectSeq(splitWords(Chars(q), {" "}, <<>>, <<>>), LAMBDA t : Len(t) > 1)

IsPrefix(prefix, word) ==
    Len(prefix) <= Len(word) /\ SubSeq(word, 1, Len(prefix)) = prefix

\* MATCH '"t1"* OR "t2"* ...' on one entry of the index
ftsMatch(entry, terms) ==
    \E i \in 1..Len(terms) :
        \E token \in Range(tokenize(entry.summary)) \cup Range(tokenize(entry.service)) :
            IsPrefix(terms[i], token)

\* search: the index entries that match, joined to the table on rowid; the bm25
\* order is not modelled
search(r, index, q, limit) ==
    LET terms == ftsTerms(q)
        hits == SelectSeq(index, LAMBDA entry : ftsMatch(entry, terms))
        joined == SelectSeq(r, LAMBDA row :
                                \E i \in 1..Len(hits) : hits[i].rowid = row.rowid)
    IN  IF terms = <<>> THEN <<>>
        ELSE [i \in 1..Min(limit, Len(joined)) |-> rowToEvent(joined[i])]

\* JSON.stringify of a string: quotes and backslashes are escaped
RECURSIVE jsonString(_)
jsonString(str) ==
    IF str = <<>> THEN <<>>
    ELSE (IF Head(str) \in {"\"", "\\"} THEN <<"\\", Head(str)>> ELSE <<Head(str)>>)
         \o jsonString(Tail(str))

\* JSON.stringify of an array of strings, as stored in a JSON column
RECURSIVE jsonItems(_)
jsonItems(list) ==
    IF list = <<>> THEN <<>>
    ELSE <<"\"">> \o jsonString(Chars(Head(list))) \o <<"\"">>
         \o (IF Len(list) > 1 THEN <<",">> ELSE <<>>) \o jsonItems(Tail(list))

jsonText(column) == <<"[">> \o jsonItems(JSONparse(column)) \o <<"]">>

\* text LIKE '%pattern%' for a pattern without wildcards
like(text, pattern) ==
    \E i \in 1..(Len(text) - Len(pattern) + 1) :
        SubSeq(text, i, i + Len(pattern) - 1) = pattern

\* query({services}): (service = ? OR additional_services LIKE '%"?"%'),
\* ORDER BY timestamp DESC LIMIT ?
query(r, services, limit) ==
    LET wanted(row) ==
            \/ services = <<>>
            \/ \E i \in 1..Len(services) :
                   \/ row.service = services[i]
                   \/ like(jsonText(row.additional_services),
                           <<"\"">> \o Chars(services[i]) \o <<"\"">>)
        found == SortSeq(SelectSeq(r, wanted), LAMBDA a, b : a.timestamp > b.timestamp)
    IN  [i \in 1..Min(limit, Len(found)) |-> rowToEvent(found[i])]

\* getVelocityTrend: period i of the loop, with both bounds inclusive
trendPeriod(r, service, windowMinutes, i, t) ==
    LET periodEnd == t - i * windowMinutes
        periodStart == periodEnd - windowMinutes
        counted == SelectSeq(r, LAMBDA row : /\ row.service = service
                                             /\ row.timestamp >= periodStart
                                             /\ row.timestamp <= periodEnd)
        types == {counted[k].change_type : k \in 1..Len(counted)}
    IN  [service |-> service, windowStart |-> periodStart, windowEnd |-> periodEnd,
         changeCount |-> Len(counted),
         changeTypes |-> {<<type, Len(SelectSeq(counted,
                                               LAMBDA row : row.change_type = type))>> :
                          type \in types}]

\* metrics.reverse(): oldest period first
getVelocityTrend(r, service, windowMinutes, periods, t) ==
    [j \in 1..periods |-> trendPeriod(r, service, windowMinutes, periods - j, t)]

\* store.insert(event)
StoreInsert ==
    \E event \in StoreEvents :
        /\ nextId <= MaxIds
        /\ \E ins \in {insert(Database(rows, nextId), event, now)} :
               Serve(ins.db, immediates, "insert", IF ins.thrown THEN 500 ELSE 201,
                     <<event>>, IF ins.thrown THEN <<>> ELSE <<ins.full>>, <<>>)

\* store.update(id, {summary})
StoreUpdate ==
    \E id \in 1..MaxIds, summary \in {"aa"} :
        \E updated \in {update(rows, id, Updates(<<summary>>, <<>>), now)} :
            Serve(Database(updated.rows, nextId), immediates, "update",
                  IF updated.event = <<>> THEN 404 ELSE 200, <<id, summary>>,
                  updated.event, <<>>)

\* store.search(q)
StoreSearch ==
    \E q \in {"ab", "a", "ba bb", "aa"} :
        \E found \in {search(rows, fts, q, SearchLimit)} :
            Serve(Database(rows, nextId), immediates, "search", 200, q, found, <<>>)

\* store.query({services: [s]})
StoreQuery ==
    \E service \in {Api, Db, Quoted} :
        \E found \in {query(rows, <<service>>, QueryLimit)} :
            Serve(Database(rows, nextId), immediates, "query", 200, service, found, <<>>)

\* store.getVelocityTrend(service, windowMinutes, periods)
StoreTrend ==
    \E service \in {Api, Db}, windowMinutes \in 1..2, periods \in 1..MaxPeriods :
        \E trend \in {getVelocityTrend(rows, service, windowMinutes, periods, now)} :
            Serve(Database(rows, nextId), immediates, "trend", 200,
                  <<service, windowMinutes, periods>>, trend, <<>>)

NextStore ==
    \/ StoreInsert
    \/ StoreUpdate
    \/ DeleteEvent
    \/ Prune
    \/ Tick
    \/ StoreSearch
    \/ StoreQuery
    \/ StoreTrend

SpecStore == InitIngest /\ [][NextStore]_vars

\* the rows counted for a window: when a later window follows, an event on the
\* window's upper bound belongs to it and one on its lower bound to the earlier one
InWindow(row, metric, oldest) ==
    /\ row.service = metric.service
    /\ row.timestamp <= metric.windowEnd
    /\ IF oldest THEN row.timestamp >= metric.windowStart
       ELSE row.timestamp > metric.windowStart

\* C22: getVelocityTrend counts every event of the service in at most one of its
\* windows; an event whose timestamp lies on the boundary between two adjacent
\* windows is counted once, in the later window, and not in the earlier one
C22_CountedOnce ==
    response.route = "trend" =>
        \A j \in 1..Len(response.results) :
            response.results[j].changeCount =
                Cardinality({i \in 1..Len(rows) :
                                 InWindow(rows[i], response.results[j], j = 1)})

\* C23: query({services: [s]}) returns every stored event whose service equals s
\* or whose additionalServices contains s
C23_QueryByService ==
    response.route = "query" =>
        \A i \in 1..Len(rows) :
            (\/ rows[i].service = response.request
             \/ Contains(JSONparse(rows[i].additional_services), response.request))
            => \E k \in 1..Len(response.results) : response.results[k].id = rows[i].id

\* C23 with the names kept to those JSON.stringify leaves as they are
C23_PlainNames ==
    (response.route = "query" /\ response.request # Quoted) =>
        \A i \in 1..Len(rows) :
            (\/ rows[i].service = response.request
             \/ Contains(JSONparse(rows[i].additional_services), response.request))
            <=> \E k \in 1..Len(response.results) : response.results[k].id = rows[i].id

\* q matches a text: some whitespace-separated piece of q of two characters or more
\* is the beginning of a word of the text
MatchesText(q, text) ==
    \E piece \in {p \in Range(splitWords(Chars(q), {" "}, <<>>, <<>>)) : Len(p) >= 2} :
        \E word \in Range(tokenize(text)) :
            \E n \in 0..Len(word) : SubSeq(word, 1, n) = piece

\* C24: the full-text index mirrors the row table.  After any sequence of insert,
\* update, delete and prune the index holds exactly the current summary and service
\* of every row, and search(q) returns exactly the events that exist now and whose
\* current summary or service matches q, as they are now
C24_IndexMirrorsTable ==
    /\ {fts[i] : i \in 1..Len(fts)} =
           {Indexed(rows[i].rowid, rows[i].summary, rows[i].service) : i \in 1..Len(rows)}
    /\ response.route = "search" =>
           {response.results[k] : k \in 1..Len(response.results)} =
               {rowToEvent(rows[i]) :
                    i \in {j \in 1..Len(rows) :
                               \/ MatchesText(response.request, rows[j].summary)
                               \/ MatchesText(response.request, rows[j].service)}}

\* a search for the new summary of an updated event finds it, after another event
\* was deleted
C24_Witness ==
    /\ response.route = "search"
    /\ response.request = "aa"
    /\ Len(response.results) = 1
    /\ response.results[1].summary = "aa"
    /\ response.results[1].updatedAt > response.results[1].createdAt
    /\ Len(rows) = 1
    /\ nextId > 2

\* a required key of the event is missing or empty
Unfit(event) ==
    \/ event.service \in {Undefined, ""}
    \/ event.summary \in {Undefined, ""}
    \/ event.changeType \in {Undefined, ""}

\* C25: insert fails, and stores nothing, whenever service, summary or changeType
\* is missing or empty; no stored event ever has an empty service or summary
C25_InsertValidates ==
    /\ (response.route = "insert" /\ Unfit(response.request[1])) =>
           (response.status = 500 /\ response.stored = {})
    /\ \A i \in 1..Len(rows) : rows[i].service # "" /\ rows[i].summary # ""

\* what insert does guarantee: it fails, and stores nothing, when a required key is
\* missing
C25_MissingRejected ==
    (/\ response.route = "insert"
     /\ Undefined \in {response.request[1].service, response.request[1].summary,
                       response.request[1].changeType}) =>
        (response.status = 500 /\ response.stored = {})

(***************************************************************************)
(* Upstream impact on a graph of five services whose dependencies are      *)
(* added in any order.                                                     *)
(***************************************************************************)
ReachDepth == 2

FleetIds == {"A", "B", "C", "D", "E"}

\* five services without dependencies
FleetGraph ==
    buildGraph([services |-> <<"A", "B", "C", "D", "E">>, dependencies |-> <<>>])

\* the dependencies that may be added: B and C call A, C calls B, D calls C, E calls D
FleetDependencies ==
    {Dependency("B", "A", "critical"), Dependency("C", "B", "critical"),
     Dependency("C", "A", "critical"), Dependency("D", "C", "critical"),
     Dependency("E", "D", "critical")}

InitReach ==
    /\ nodes = FleetGraph.nodes
    /\ edges = FleetGraph.edges
    /\ outgoing = FleetGraph.outgoing
    /\ incoming = FleetGraph.incoming
    /\ call = [op |-> "none"]
    /\ InitStore

\* graph.addDependency for a dependency not yet in the graph
AddFleetDependency ==
    \E dep \in FleetDependencies :
        /\ call.op = "none"
        /\ ~HasId(edges, EdgeId(dep.source, dep.target))
        /\ SetGraph(addDependency(CurrentGraph,
                                  [source |-> dep.source, target |-> dep.target,
                                   criticality |-> dep.criticality,
                                   edgeSource |-> Undefined, confidence |-> <<>>,
                                   metaSource |-> "config"]))
        /\ UNCHANGED <<call, storeVars>>

\* graph.getUpstreamImpact(serviceId, maxDepth)
UpstreamOfFleet ==
    \E serviceId \in FleetIds, maxDepth \in 0..ReachDepth :
        /\ call.op = "none"
        /\ \E result \in {getUpstreamImpact(CurrentGraph, serviceId, maxDepth)} :
               call' = [op |-> "traverse", dir |-> "upstream", serviceId |-> serviceId,
                        maxDepth |-> maxDepth, result |-> result]
        /\ UNCHANGED <<graphVars, storeVars>>

\* analyzer.predict([service], undefined, {maxDepth})
PredictFleet ==
    \E serviceId \in FleetIds, maxDepth \in 0..ReachDepth :
        /\ call.op = "none"
        /\ \E result \in {predict(CurrentGraph, <<serviceId>>, Undefined, maxDepth)} :
               call' = [op |-> "predict", targets |-> <<serviceId>>,
                        changeType |-> Undefined, maxDepth |-> maxDepth,
                        result |-> result]
        /\ UNCHANGED <<graphVars, storeVars>>

NextReach == AddFleetDependency \/ UpstreamOfFleet \/ PredictFleet \/ Respond

SpecReach == InitReach /\ [][NextReach]_vars

\* the services from which v is reached over at most k edges, k >= 1
RECURSIVE UpstreamWithin(_, _)
UpstreamWithin(v, k) ==
    IF k = 0 THEN {}
    ELSE LET near == UpstreamWithin(v, k - 1) \cup {v}
         IN  UpstreamWithin(v, k - 1)
                 \cup {e.source : e \in {x \in Range(edges) : x.target \in near}}

\* C26: getUpstreamImpact(v, maxDepth) reports as affected every service from which
\* v is reached over at most maxDepth+1 edges, whatever the order the edges were
\* added in; predict omits no such service, other than the target, from
\* directServices and downstreamServices
C26_ReportsAllWithinDepth ==
    /\ call.op = "traverse" =>
           \A s \in UpstreamWithin(call.serviceId, call.maxDepth + 1) :
               \E i \in 1..Len(call.result) : call.result[i].affected = s
    /\ call.op = "predict" =>
           \A s \in UpstreamWithin(call.targets[1], call.maxDepth + 1) \ {call.targets[1]} :
               \/ Contains(call.result.directServices, s)
               \/ Contains(call.result.downstreamServices, s)

\* C27: no impact path returned by getUpstreamImpact(v, maxDepth) or
\* getDownstreamImpact(v, maxDepth) has more than maxDepth+1 edges (hops is at most
\* maxDepth+2), and the number of returned paths never exceeds the number of edges
\* in the graph
C27_DepthAndCount ==
    call.op = "traverse" =>
        /\ \A p \in Returned :
               /\ Len(p.path) - 1 <= call.maxDepth + 1
               /\ p.hops <= call.maxDepth + 2
        /\ Len(call.result) <= Len(edges)

\* a traversal on the chain C -> B -> A that returns a path of maxDepth+1 edges and
\* as many paths as the graph has edges
C27_Witness ==
    /\ call.op = "traverse"
    /\ call.dir = "upstream"
    /\ call.serviceId = "A"
    /\ call.maxDepth = 1
    /\ Len(edges) = 2
    /\ Len(call.result) = 2
    /\ \E p \in Returned : p.path = <<"A", "B", "C">> /\ p.hops = call.maxDepth + 2

(***************************************************************************)
(* Claims about the verdict and the confidence buckets of a prediction     *)
(***************************************************************************)
\* C28: a prediction reports criticalPathAffected (and with it riskLevel critical)
\* only when a non-target service is listed in directServices or downstreamServices;
\* a prediction without dependents is never critical
C28_CriticalNeedsDependent ==
    call.op = "predict" =>
        LET r == call.result
            dependents == (Range(r.directServices) \cup Range(r.downstreamServices))
                              \ Range(call.targets)
        IN  /\ r.criticalPathAffected => dependents # {}
            /\ dependents = {} => r.riskLevel # "critical"

\* what predict does guarantee: criticalPathAffected is set only when some impact
\* path, to a target or not, is critical, and the verdict is critical exactly then
C28_CriticalNeedsPath ==
    call.op = "predict" =>
        LET r == call.result
        IN  /\ r.criticalPathAffected <=>
                   \E i \in 1..Len(r.impactPaths) : r.impactPaths[i].criticality = "critical"
            /\ r.riskLevel = "critical" <=> r.criticalPathAffected

\* C29: in every prediction highConfidenceDependents and possibleDependents are
\* disjoint, also when a service is reached over several paths or from several
\* targets
C29_BucketsDisjoint ==
    call.op = "predict" =>
        Range(call.result.highConfidenceDependents)
            \cap Range(call.result.possibleDependents) = {}

(***************************************************************************)
(* Claims about the attributes of merged edges                             *)
(***************************************************************************)
\* C30: an edge that merge adds to base has the same confidence and the same
\* edgeSource as the corresponding edge of the incoming graph
C30_MergedEdgeAttributes ==
    call.op = "merge" =>
        \A i \in 1..Len(call.incoming.edges) :
            LET edge == call.incoming.edges[i]
            IN  ~edgeExists(call.before, edge) =>
                    /\ HasId(edges, edge.id)
                    /\ GetById(edges, edge.id).confidence = edge.confidence
                    /\ GetById(edges, edge.id).edgeSource = edge.edgeSource

\* what merge does guarantee for an edge it adds: source, target and criticality
\* are the incoming edge's, the confidence is the default 1 and the edgeSource is
\* the one inferred from the provenance tag
C30_MergedEdgeDefaults ==
    call.op = "merge" =>
        \A i \in 1..Len(call.incoming.edges) :
            LET edge == call.incoming.edges[i]
            IN  ~edgeExists(call.before, edge) =>
                    /\ HasId(edges, edge.id)
                    /\ GetById(edges, edge.id).criticality = edge.criticality
                    /\ GetById(edges, edge.id).confidence = <<100>>
                    /\ GetById(edges, edge.id).edgeSource = inferEdgeSource(call.tag)

====
